---- MODULE Spec2Model ----
(***************************************************************************)
(* Model of tail-tagger's asynchronous classifier pipeline:                *)
(* ClassifierManager (classifier_manager.py), its two QRunnable workers    *)
(* (LoadModelWorker, AnalysisWorker), the queued cross-thread signals that *)
(* bring their outcome back to the GUI thread, and the panel that switches *)
(* the active model (classifier_panel.py).                                 *)
(*                                                                         *)
(* Every slot of the manager runs on the GUI thread, so each handler is    *)
(* one atomic action.  The workers run on the thread pool; the only thing  *)
(* they do that the manager can see is emitting one signal, so a worker's  *)
(* run() is one action that appends that signal to the GUI thread's event  *)
(* queue.                                                                  *)
(***************************************************************************)
EXTENDS Integers, Sequences, FiniteSets, TLC

\* ---------------------------------------------------------------- bounds
\* Number of request_analysis calls the caller makes in one run.
MaxRequests == 2
\* Number of model switches the user makes in one run.
MaxSwitches == 1

\* ------------------------------------------------------------ file system
\* Python's None for a string-valued attribute.
None == ""
\* Python's None for an object handle (model, tag list).
NoObj == 0
\* A path made by os.path.join(folder, filename); NoPath is None.
NoPath == [folder |-> "", stem |-> "", ext |-> ""]

SUPPORTED_MODELS == {"JTP_PILOT", "JTP_PILOT2"}

\* str.lower() on the file extensions that occur in the modelled folders.
Lower(ext) ==
    CASE ext = ".SAFETENSORS" -> ".safetensors"
      [] ext = ".SafeTensors" -> ".safetensors"
      [] OTHER -> ext

WeightsFile == [stem |-> "model", ext |-> ".safetensors"]
UpperWeightsFile == [stem |-> "MODEL", ext |-> ".SAFETENSORS"]
TagsFile == [stem |-> "tags", ext |-> ".json"]

\* One entry of os.listdir(classifiers_dir): a name, whether it is a
\* directory, and the listing of its files (in os.listdir order).
Folder(name, files) == [name |-> name, is_dir |-> TRUE, files |-> files]

\* The classifiers directories the runs start from: missing, one model,
\* and two models (one with an upper-case weights file) beside a folder
\* that is not supported.
NoClassifiersDir == [exists |-> FALSE, entries |-> << >>]
OneModelDir ==
    [exists |-> TRUE,
     entries |-> << Folder("JTP_PILOT", <<TagsFile, WeightsFile>>) >>]
TwoModelsDir ==
    [exists |-> TRUE,
     entries |-> << Folder("JTP_PILOT2", <<UpperWeightsFile, TagsFile>>),
                    Folder("OTHER", <<TagsFile, WeightsFile>>),
                    Folder("JTP_PILOT", <<TagsFile, WeightsFile>>) >>]

\* The environments a run starts in: the directory on disk, the config
\* key classifier_active_model_id, and torch.cuda.is_available().
Environments ==
    { [fs |-> NoClassifiersDir, saved_id |-> "JTP_PILOT2", cuda |-> FALSE],
      [fs |-> OneModelDir, saved_id |-> "JTP_PILOT2", cuda |-> FALSE],
      [fs |-> TwoModelsDir, saved_id |-> "JTP_PILOT2", cuda |-> TRUE],
      [fs |-> TwoModelsDir, saved_id |-> "JTP_PILOT", cuda |-> FALSE] }

\* filename.lower().endswith(".safetensors")
IsSafetensors(file) == Lower(file.ext) = ".safetensors"

\* The first file of a listing that ends with .safetensors, 0 if none
\* (the for/break loops of _discover_models and _set_paths_for_active_model).
FirstSafetensors(files) ==
    LET hits == {i \in 1..Len(files) : IsSafetensors(files[i])}
    IN  IF hits = {} THEN 0
        ELSE CHOOSE i \in hits : \A j \in hits : i <= j

\* A folder check that looks for the vocabulary file only.
IsValidModelFolder_tags_only(e) ==
    /\ e.is_dir
    /\ e.name \in SUPPORTED_MODELS
    /\ \E i \in 1..Len(e.files) : e.files[i] = TagsFile

\* A folder check that wants exactly one weights file.
IsValidModelFolder_single_weights(e) ==
    /\ e.is_dir
    /\ e.name \in SUPPORTED_MODELS
    /\ \E i \in 1..Len(e.files) : e.files[i] = TagsFile
    /\ Cardinality({i \in 1..Len(e.files) : IsSafetensors(e.files[i])}) = 1

\* Whether one listed folder is a valid supported model.
IsValidModelFolder(e) ==
    /\ e.is_dir
    /\ e.name \in SUPPORTED_MODELS
    /\ \E i \in 1..Len(e.files) : e.files[i] = TagsFile
    /\ FirstSafetensors(e.files) # 0

RECURSIVE DiscoverFrom(_, _)
DiscoverFrom(entries, i) ==
    IF i > Len(entries) THEN << >>
    ELSE IF IsValidModelFolder(entries[i])
         THEN <<entries[i].name>> \o DiscoverFrom(entries, i + 1)
         ELSE DiscoverFrom(entries, i + 1)

\* ClassifierManager._discover_models
_discover_models(filesystem) ==
    IF ~filesystem.exists THEN << >>
    ELSE DiscoverFrom(filesystem.entries, 1)

SeqToSet(s) == {s[i] : i \in 1..Len(s)}

\* os.listdir(model_folder_path) for a model id.
ListModelFolder(filesystem, model_id) ==
    LET hits == {i \in 1..Len(filesystem.entries) :
                    filesystem.entries[i].name = model_id}
    IN  IF hits = {} THEN << >>
        ELSE filesystem.entries[CHOOSE i \in hits : TRUE].files

\* ------------------------------------------------------------------ state
VARIABLES
    fs,                      \* the classifiers directory on disk
    cuda_is_available,       \* torch.cuda.is_available()
    available_model_ids,     \* ClassifierManager.available_model_ids
    active_model_id,         \* ClassifierManager.active_model_id
    model_path,              \* ClassifierManager.model_path
    tags_path,               \* ClassifierManager.tags_path
    model,                   \* ClassifierManager.model (object handle)
    allowed_tags,            \* ClassifierManager.allowed_tags (object handle)
    device,                  \* ClassifierManager.device
    is_loading,              \* ClassifierManager.is_loading
    pending_analysis_path,   \* ClassifierManager.pending_analysis_path
    load_pool,               \* LoadModelWorkers handed to the thread pool
    analysis_pool,           \* AnalysisWorkers handed to the thread pool
    event_queue,             \* worker signals queued for the GUI thread
    emitted,                 \* the manager's signals, in emission order
    n_requests,              \* request_analysis calls made by the caller
    requested,               \* history: the path of each of those calls
    overwritten,             \* history: calls whose pending path was replaced
    last_selected,           \* history: the id of the last model switch
    n_switches,              \* model switches made by the user
    n_loads,                 \* LoadModelWorkers created so far
    n_tasks,                 \* AnalysisWorkers created so far
    pending_req,             \* history: the call that stored the pending path
    failed,                  \* history: the last load ended in loading_error
    released,                \* model objects no reference holds any more
    logits,                  \* what the model's forward pass returns
    raw_results,             \* ClassifierPanel.raw_results
    raw_task,                \* history: the task raw_results came from
    current_threshold,       \* ClassifierPanel.threshold_spinbox.value()
    config_threshold,        \* the config key classifier_threshold
    displayed,               \* the tag widgets in ClassifierPanel.results_layout
    file_hw,                 \* (height, width) of the image file on disk
    processed_size,          \* preprocess_jtp3: processed.size, (width, height)
    patches,                 \* preprocess_jtp3: the patch buffer
    patch_coords,            \* preprocess_jtp3: the coordinate buffer
    patch_valid,             \* preprocess_jtp3: the validity mask
    folder_id,               \* the id of the model folder a loader is run on
    tags_data,               \* tags.json: its (name, index) items in key order
    state_dict,              \* the weights file: head layout, output width
    loader,                  \* which loader ran last on that folder
    loaded,                  \* what that loader returned or raised
    head_input,              \* the head's linear projection of an image
    returned_probabilities,  \* the probabilities inference returned for it
    checkpoint,              \* the JTP-3 safetensors file a model is loaded from
    attn_pool,               \* the HydraPool of the JTP-3 model
    pool_from,               \* history: what made that HydraPool
    n_qk_norm,               \* history: normalizations of its queries so far
    n_forward,               \* history: forward passes through it so far
    used_q,                  \* history: the queries the last pass attended with
    fit_called,              \* which of Fit.forward and preprocess_jtp2 ran last
    fit_input,               \* the image it ran on, as a PIL image
    fit_grow,                \* Fit.grow of that run
    fitted,                  \* what Fit.forward returned or raised
    tensor_shape,            \* the shape of the tensor of preprocess_jtp2
    search                   \* one call of get_image_size_for_seq: its locals

vars == << fs, cuda_is_available, available_model_ids, active_model_id,
           model_path, tags_path, model, allowed_tags, device, is_loading,
           pending_analysis_path, load_pool, analysis_pool, event_queue,
           emitted, n_requests, requested, overwritten, last_selected,
           n_switches, n_loads, n_tasks, pending_req, failed, released,
           logits, raw_results, raw_task, current_threshold, config_threshold,
           displayed, file_hw, processed_size, patches, patch_coords,
           patch_valid, folder_id, tags_data, state_dict, loader, loaded,
           head_input, returned_probabilities, checkpoint, attn_pool,
           pool_from, n_qk_norm, n_forward, used_q, fit_called, fit_input,
           fit_grow, fitted, tensor_shape, search >>

\* What only a call of get_image_size_for_seq followed step by step changes.
search_vars == << search >>

\* What only JTP-2 preprocessing changes.
fit_vars == << fit_called, fit_input, fit_grow, fitted, tensor_shape >>

\* What only the Hydra head's loader and methods change.
hydra_vars == << checkpoint, attn_pool, pool_from, n_qk_norm, n_forward,
                used_q >>

\* What only JTP-3 preprocessing changes.
jtp3_vars == << file_hw, processed_size, patches, patch_coords, patch_valid >>

\* What only the loaders and the inference functions of JTP-2 change.
jtp2_vars == << folder_id, tags_data, state_dict, loader, loaded, head_input,
               returned_probabilities >>

\* What only the caller's and the user's actions change.
caller_vars == << n_requests, requested, overwritten, last_selected, n_switches >>

\* The part of the state the manager's methods and the workers change,
\* as one value, so that a method calling another composes.
World ==
    [ available_model_ids |-> available_model_ids,
      active_model_id |-> active_model_id,
      model_path |-> model_path,
      tags_path |-> tags_path,
      model |-> model,
      allowed_tags |-> allowed_tags,
      device |-> device,
      is_loading |-> is_loading,
      pending_analysis_path |-> pending_analysis_path,
      load_pool |-> load_pool,
      analysis_pool |-> analysis_pool,
      event_queue |-> event_queue,
      emitted |-> emitted,
      n_loads |-> n_loads,
      n_tasks |-> n_tasks,
      pending_req |-> pending_req,
      failed |-> failed ]

\* The model objects some reference still reaches: the manager's attribute,
\* a worker's attribute, or the argument of a queued model_loaded signal.
Holders(w) ==
    ( {w.model}
      \cup {t.worker.model : t \in w.analysis_pool}
      \cup {w.event_queue[i].model : i \in 1..Len(w.event_queue)} )
    \ {NoObj}

\* The manager after a handler: every attribute takes the handler's value,
\* and an object the handler dropped the last reference to is released.
CommitManager(w) ==
    /\ available_model_ids' = w.available_model_ids
    /\ active_model_id' = w.active_model_id
    /\ model_path' = w.model_path
    /\ tags_path' = w.tags_path
    /\ model' = w.model
    /\ allowed_tags' = w.allowed_tags
    /\ device' = w.device
    /\ is_loading' = w.is_loading
    /\ pending_analysis_path' = w.pending_analysis_path
    /\ load_pool' = w.load_pool
    /\ analysis_pool' = w.analysis_pool
    /\ event_queue' = w.event_queue
    /\ emitted' = w.emitted
    /\ n_loads' = w.n_loads
    /\ n_tasks' = w.n_tasks
    /\ pending_req' = w.pending_req
    /\ failed' = w.failed
    /\ released' = (released \cup Holders(World)) \ Holders(w)

\* --------------------------------------------------------------- signals
\* One emission of a manager signal (analysis_started, analysis_finished,
\* error_occurred).  req, task and results.model are history fields: the
\* signals themselves carry only the results list or the message.
NoResults == [model |-> NoObj, allowed_tags |-> NoObj, image |-> None]

\* A message: its fixed text and the text formatted into it.
Msg(text, detail) == <<text, detail>>
NoMsg == Msg("", "")

Signal(sig, msg, req, task, results) ==
    [sig |-> sig, msg |-> msg, req |-> req, task |-> task, results |-> results]

Emit(w, sig, msg, req, task, results) ==
    [w EXCEPT !.emitted = Append(@, Signal(sig, msg, req, task, results))]

\* A worker signal queued for the GUI thread.
Queued(sig, msg, req, task, mdl, tags, dev, results) ==
    [sig |-> sig, msg |-> msg, req |-> req, task |-> task, model |-> mdl,
     allowed_tags |-> tags, device |-> dev, results |-> results]

\* ---------------------------------------------------------------- images
ImagePaths == {"a.png", "b.png", "missing.png", "corrupt.png"}

\* What Image.open(image_path) and the transform do with each path.
OpenImage(image_path) ==
    CASE image_path = "missing.png" -> "FileNotFoundError"
      [] image_path = "corrupt.png" -> "Exception"
      [] OTHER -> "ok"

\* ---------------------------------------------------------------- workers
\* LoadModelWorker.__init__: the paths of the model active at creation.
LoadModelWorker(path_of_model, path_of_tags, device_preference) ==
    [model_path |-> path_of_model, tags_path |-> path_of_tags,
     use_gpu_preference |-> device_preference]

\* AnalysisWorker.__init__: the worker keeps its own references to the
\* tensor, the model, the device and the tag list it is given.
AnalysisWorker(image_tensor, mdl, dev, tags) ==
    [tensor |-> image_tensor, model |-> mdl, device |-> dev,
     allowed_tags |-> tags]

\* A worker that reads the manager's current model when it runs, instead
\* of the one it was given.
RunModel_of_manager(worker) == model

\* The model object AnalysisWorker.run calls, and the tag list it indexes.
RunModel(worker) == worker.model
RunTags(worker) == worker.allowed_tags

\* ------------------------------------------------------- post-processing
\* list(tags_data.keys()) of the vocabulary file, in logit order.
Vocabulary == <<"red", "blue", "green">>

\* The logits the forward pass can return for one tag.
LogitValues == {-5, -2, 0, 2}

\* torch.nn.functional.sigmoid, in thousandths.
Sigmoid(x) ==
    CASE x = -5 -> 7
      [] x = -4 -> 18
      [] x = -3 -> 47
      [] x = -2 -> 119
      [] x = -1 -> 269
      [] x = 0 -> 500
      [] x = 1 -> 731
      [] x = 2 -> 881
      [] x = 3 -> 953
      [] x = 4 -> 982
      [] x = 5 -> 993

\* The value a one-element set holds.  TLC evaluates a definition of a LET
\* at each use of its name and a name bound over a set once, so a value
\* that is used many times is bound over the set that holds only it.
The(S) == CHOOSE x \in S : TRUE

\* INTERNAL_THRESHOLD = 0.01, in thousandths.
INTERNAL_THRESHOLD == 10

\* Steps 2 and 3 of AnalysisWorker.run: the (tag_name, score) pairs of the
\* indices whose probability is above the internal threshold, in index
\* order; an index the tag list does not have is skipped.
RECURSIVE TagScores(_, _, _)
TagScores(probabilities, tags, i) ==
    IF i > Len(probabilities) THEN << >>
    ELSE IF probabilities[i] > INTERNAL_THRESHOLD /\ i <= Len(tags)
         THEN << <<tags[i], probabilities[i]>> >>
                 \o TagScores(probabilities, tags, i + 1)
         ELSE TagScores(probabilities, tags, i + 1)

\* An insertion that puts a pair in front of the pairs it ties with.
InsertByScore_before_ties(sorted, pair) ==
    LET k == Cardinality({i \in 1..Len(sorted) : sorted[i][2] > pair[2]})
    IN  SubSeq(sorted, 1, k) \o <<pair>> \o SubSeq(sorted, k + 1, Len(sorted))

\* Where list.sort(key=score, reverse=True) puts one more pair: behind
\* every pair with a score at least as high (the sort is stable).
InsertByScore(sorted, pair) ==
    The({ LET k == Cardinality({i \in 1..Len(s) : s[i][2] >= pair[2]})
          IN  SubSeq(s, 1, k) \o <<pair>> \o SubSeq(s, k + 1, Len(s))
          : s \in {sorted} })

\* Step 4: results.sort(key=lambda x: x[1], reverse=True)
RECURSIVE SortByScore(_, _)
SortByScore(results, n) ==
    IF n = 0 THEN << >>
    ELSE InsertByScore(SortByScore(results, n - 1), results[n])

\* A post-processing that takes the model's output for probabilities, as
\* is right for a gated head only, and applies no sigmoid.
PostProcess_without_sigmoid(model_logits, tags) ==
    LET probabilities == [i \in 1..Len(model_logits) |-> model_logits[i] * 1000]
        results == TagScores(probabilities, tags, 1)
    IN  SortByScore(results, Len(results))

\* A post-processing whose internal floor, 0.4, is above thresholds the
\* panel allows.
PostProcess_high_floor(model_logits, tags) ==
    LET probabilities == [i \in 1..Len(model_logits) |-> Sigmoid(model_logits[i])]
    IN  The({ SortByScore(results, Len(results))
              : results \in {SelectSeq(TagScores(probabilities, tags, 1),
                                       LAMBDA r : r[2] > 400)} })

\* The results list AnalysisWorker.run emits for the logits of its model.
PostProcess(model_logits, tags) ==
    LET probabilities == [i \in 1..Len(model_logits) |-> Sigmoid(model_logits[i])]
    IN  The({ SortByScore(results, Len(results))
              : results \in {TagScores(probabilities, tags, 1)} })

\* --------------------------------------------------------------- manager
\* _set_paths_for_active_model that keeps a weights path it already has.
_set_paths_keeping_model_path(w, filesystem, model_id) ==
    IF model_id \notin SeqToSet(w.available_model_ids)
    THEN [w EXCEPT !.active_model_id = None, !.model_path = NoPath,
                   !.tags_path = NoPath]
    ELSE LET files == ListModelFolder(filesystem, model_id)
             k == FirstSafetensors(files)
         IN  [w EXCEPT !.active_model_id = model_id,
                 !.tags_path = [folder |-> model_id, stem |-> TagsFile.stem,
                                ext |-> TagsFile.ext],
                 !.model_path =
                    IF w.model_path # NoPath THEN w.model_path
                    ELSE [folder |-> model_id, stem |-> files[k].stem,
                          ext |-> files[k].ext]]

\* ClassifierManager._set_paths_for_active_model
_set_paths_for_active_model(w, filesystem, model_id) ==
    IF model_id \notin SeqToSet(w.available_model_ids)
    THEN [w EXCEPT !.active_model_id = None, !.model_path = NoPath,
                   !.tags_path = NoPath]
    ELSE LET files == ListModelFolder(filesystem, model_id)
             k == FirstSafetensors(files)
         IN  IF k = 0
             THEN [w EXCEPT !.active_model_id = None, !.model_path = NoPath,
                     !.tags_path = [folder |-> model_id, stem |-> TagsFile.stem,
                                    ext |-> TagsFile.ext]]
             ELSE [w EXCEPT !.active_model_id = model_id,
                     !.tags_path = [folder |-> model_id, stem |-> TagsFile.stem,
                                    ext |-> TagsFile.ext],
                     !.model_path = [folder |-> model_id, stem |-> files[k].stem,
                                     ext |-> files[k].ext]]

\* _ensure_loaded without its is_loading check: every call made before the
\* model is there starts a load task.
_ensure_loaded_unguarded(w) ==
    IF w.model # NoObj /\ w.allowed_tags # NoObj
    THEN [w |-> w, ready |-> TRUE]
    ELSE IF w.model_path = NoPath \/ w.tags_path = NoPath
    THEN [w |-> Emit(w, "error_occurred",
                     Msg("Internal error: Active model paths not set.", ""), 0, 0,
                     NoResults),
          ready |-> FALSE]
    ELSE [w |-> [w EXCEPT !.is_loading = TRUE,
                          !.n_loads = @ + 1,
                          !.load_pool = @ \cup
                              {[id |-> w.n_loads + 1,
                                worker |-> LoadModelWorker(w.model_path,
                                                           w.tags_path, TRUE)]}],
          ready |-> FALSE]

\* _ensure_loaded without its check of the paths: it starts a load task
\* whether or not an active model has paths.
_ensure_loaded_without_path_check(w) ==
    IF w.model # NoObj /\ w.allowed_tags # NoObj
    THEN [w |-> w, ready |-> TRUE]
    ELSE IF w.is_loading
    THEN [w |-> w, ready |-> FALSE]
    ELSE [w |-> [w EXCEPT !.is_loading = TRUE,
                          !.n_loads = @ + 1,
                          !.load_pool = @ \cup
                              {[id |-> w.n_loads + 1,
                                worker |-> LoadModelWorker(w.model_path,
                                                           w.tags_path, TRUE)]}],
          ready |-> FALSE]

\* ClassifierManager._ensure_loaded: the state it leaves and what it returns.
_ensure_loaded(w) ==
    IF w.model # NoObj /\ w.allowed_tags # NoObj
    THEN [w |-> w, ready |-> TRUE]
    ELSE IF w.is_loading
    THEN [w |-> w, ready |-> FALSE]
    ELSE IF w.model_path = NoPath \/ w.tags_path = NoPath
    THEN [w |-> Emit(w, "error_occurred",
                     Msg("Internal error: Active model paths not set.", ""), 0, 0,
                     NoResults),
          ready |-> FALSE]
    ELSE [w |-> [w EXCEPT !.is_loading = TRUE,
                          !.n_loads = @ + 1,
                          !.load_pool = @ \cup
                              {[id |-> w.n_loads + 1,
                                worker |-> LoadModelWorker(w.model_path,
                                                           w.tags_path, TRUE)]}],
          ready |-> FALSE]

\* Dispatch that refuses a request while another inference task is in the
\* pool.
Dispatch_one_at_a_time(w, image_path, req) ==
    IF w.analysis_pool # {} \/ OpenImage(image_path) # "ok"
    THEN Emit(w, "error_occurred", Msg("busy", ""), req, 0, NoResults)
    ELSE [Emit(w, "analysis_started", NoMsg, req, w.n_tasks + 1,
               [model |-> w.model, allowed_tags |-> w.allowed_tags,
                image |-> image_path])
          EXCEPT !.n_tasks = @ + 1,
                 !.analysis_pool = @ \cup
                    {[id |-> w.n_tasks + 1, req |-> req,
                      worker |-> AnalysisWorker([image |-> image_path], w.model,
                                                w.device, w.allowed_tags)]}]

\* A try block whose except clauses also drop the model.
Dispatch_unloading_on_error(w, image_path, req) ==
    IF OpenImage(image_path) = "ok"
    THEN LET worker == AnalysisWorker([image |-> image_path], w.model,
                                      w.device, w.allowed_tags)
             started == Emit(w, "analysis_started", NoMsg, req, w.n_tasks + 1,
                             [model |-> w.model,
                              allowed_tags |-> w.allowed_tags,
                              image |-> image_path])
         IN  [started EXCEPT
                 !.n_tasks = @ + 1,
                 !.analysis_pool = @ \cup
                     {[id |-> w.n_tasks + 1, req |-> req, worker |-> worker]}]
    ELSE Emit([w EXCEPT !.model = NoObj, !.allowed_tags = NoObj],
              "error_occurred",
              Msg("ERROR during preprocessing or dispatch: ", "Exception"),
              req, 0, NoResults)

\* The try block of request_analysis once the model is ready: preprocess on
\* the calling thread, create the worker, emit analysis_started, start it.
Dispatch(w, image_path, req) ==
    CASE OpenImage(image_path) = "FileNotFoundError" ->
            Emit(w, "error_occurred", Msg("Image file not found at ", image_path),
                 req, 0, NoResults)
      [] OpenImage(image_path) = "Exception" ->
            Emit(w, "error_occurred",
                 Msg("ERROR during preprocessing or dispatch: ", "Exception"),
                 req, 0, NoResults)
      [] OTHER ->
            LET worker == AnalysisWorker([image |-> image_path], w.model,
                                         w.device, w.allowed_tags)
                started == Emit(w, "analysis_started", NoMsg, req, w.n_tasks + 1,
                                [model |-> w.model,
                                 allowed_tags |-> w.allowed_tags,
                                 image |-> image_path])
            IN  [started EXCEPT
                    !.n_tasks = @ + 1,
                    !.analysis_pool = @ \cup
                        {[id |-> w.n_tasks + 1, req |-> req, worker |-> worker]}]

\* request_analysis that queues the first path asked for during a load and
\* drops the later ones.
request_analysis_keep_first(w, image_path, req) ==
    LET e == _ensure_loaded(w)
    IN  IF ~e.ready
        THEN IF e.w.is_loading
             THEN IF e.w.pending_analysis_path = None
                  THEN [e.w EXCEPT !.pending_analysis_path = image_path,
                                   !.pending_req = req]
                  ELSE e.w
             ELSE Emit(e.w, "error_occurred",
                       Msg("Model failed to load previously.", ""), req, 0,
                       NoResults)
        ELSE Dispatch([e.w EXCEPT !.pending_analysis_path = None,
                                  !.pending_req = 0],
                      image_path, req)

\* ClassifierManager.request_analysis
request_analysis(w, image_path, req) ==
    LET e == _ensure_loaded(w)
    IN  IF ~e.ready
        THEN IF e.w.is_loading
             THEN [e.w EXCEPT !.pending_analysis_path = image_path,
                              !.pending_req = req]
             ELSE Emit(e.w, "error_occurred",
                       Msg("Model failed to load previously.", ""), req, 0,
                       NoResults)
        ELSE LET w1 == [e.w EXCEPT !.pending_analysis_path = None,
                                   !.pending_req = 0]
             IN  IF w1.device = None
                 THEN Emit(w1, "error_occurred",
                           Msg("Cannot analyze, device not set after model load.",
                               ""),
                           req, 0, NoResults)
                 ELSE Dispatch(w1, image_path, req)

\* _handle_worker_result that relays only the result of the newest task,
\* as if a newer request cancelled the older ones.
_handle_worker_result_latest_only(w, s) ==
    IF s.task = w.n_tasks
    THEN Emit(w, "analysis_finished", NoMsg, s.req, s.task, s.results)
    ELSE w

\* _handle_worker_result that keeps the results in the order of the
\* requests: a result is not relayed while an earlier task is in the pool.
_handle_worker_result_in_request_order(w, s) ==
    IF \E t \in w.analysis_pool : t.id < s.task
    THEN w
    ELSE Emit(w, "analysis_finished", NoMsg, s.req, s.task, s.results)

\* ClassifierManager._handle_worker_result
_handle_worker_result(w, s) ==
    Emit(w, "analysis_finished", NoMsg, s.req, s.task, s.results)

\* _handle_worker_error that treats a failed inference as a failed model
\* and drops the model.
_handle_worker_error_dropping_model(w, s) ==
    Emit([w EXCEPT !.model = NoObj, !.allowed_tags = NoObj, !.device = None],
         "error_occurred", s.msg, s.req, s.task, NoResults)

\* _handle_worker_error that logs the message and relays nothing.
_handle_worker_error_swallowed(w, s) == w

\* ClassifierManager._handle_worker_error
_handle_worker_error(w, s) ==
    Emit(w, "error_occurred", s.msg, s.req, s.task, NoResults)

\* _handle_model_loaded that forgets to take the device from the model.
_handle_model_loaded_without_device(w, s) ==
    LET w1 == [w EXCEPT !.model = s.model,
                        !.allowed_tags = s.allowed_tags,
                        !.is_loading = FALSE,
                        !.failed = FALSE]
    IN  IF w1.pending_analysis_path # None
        THEN request_analysis(
                [w1 EXCEPT !.pending_analysis_path = None, !.pending_req = 0],
                w1.pending_analysis_path, w1.pending_req)
        ELSE w1

\* ClassifierManager._handle_model_loaded
_handle_model_loaded(w, s) ==
    LET w1 == [w EXCEPT !.model = s.model,
                        !.allowed_tags = s.allowed_tags,
                        !.device = s.device,
                        !.is_loading = FALSE,
                        !.failed = FALSE]
    IN  IF w1.pending_analysis_path # None
        THEN request_analysis(
                [w1 EXCEPT !.pending_analysis_path = None, !.pending_req = 0],
                w1.pending_analysis_path, w1.pending_req)
        ELSE w1

\* _handle_loading_error that leaves the pending path in place.
_handle_loading_error_keeping_pending(w, s) ==
    Emit([w EXCEPT !.model = NoObj,
                   !.allowed_tags = NoObj,
                   !.is_loading = FALSE,
                   !.failed = TRUE],
         "error_occurred", Msg("Model loading failed: ", s.msg[1] \o s.msg[2]),
         w.pending_req, 0, NoResults)

\* ClassifierManager._handle_loading_error
_handle_loading_error(w, s) ==
    Emit([w EXCEPT !.model = NoObj,
                   !.allowed_tags = NoObj,
                   !.is_loading = FALSE,
                   !.pending_analysis_path = None,
                   !.pending_req = 0,
                   !.failed = TRUE],
         "error_occurred", Msg("Model loading failed: ", s.msg[1] \o s.msg[2]),
         w.pending_req, 0, NoResults)

\* ClassifierManager.set_active_model, which classifier_panel.py calls and
\* classifier_manager.py does not define: the transition the specification
\* gives it (Ready/Failed to Unloaded for the new id).
set_active_model(w, filesystem, model_id) ==
    _set_paths_for_active_model(
        [w EXCEPT !.model = NoObj, !.allowed_tags = NoObj, !.device = None,
                  !.failed = FALSE],
        filesystem, model_id)

\* ------------------------------------------------------------------ panel
\* ClassifierPanel.raw_results: None, or the list of the last analysis.
NoRawResults == [is_none |-> TRUE, items |-> << >>]
RawResults(results) == [is_none |-> FALSE, items |-> results]

\* The values the user sets the threshold spinbox to (0.05 to 0.95), in
\* thousandths.
Thresholds == {50, 300, 500, 950}

\* The panel's attributes as one value.
Panel ==
    [ raw_results |-> raw_results,
      raw_task |-> raw_task,
      current_threshold |-> current_threshold,
      config_threshold |-> config_threshold,
      displayed |-> displayed ]

SetPanel(p) ==
    /\ raw_results' = p.raw_results
    /\ raw_task' = p.raw_task
    /\ current_threshold' = p.current_threshold
    /\ config_threshold' = p.config_threshold
    /\ displayed' = p.displayed
    /\ logits' = logits
    /\ UNCHANGED jtp2_vars
    /\ UNCHANGED hydra_vars
    /\ UNCHANGED fit_vars
    /\ UNCHANGED search_vars

\* The panel after a handler that does no JTP-3 preprocessing.
CommitPanel(p) ==
    /\ SetPanel(p)
    /\ UNCHANGED jtp3_vars

\* ClassifierPanel._clear_results_widgets
_clear_results_widgets(p) == [p EXCEPT !.displayed = << >>]

\* ClassifierPanel._update_displayed_tags
_update_displayed_tags(p) ==
    The({ IF q.raw_results.is_none
          THEN _clear_results_widgets(q)
          ELSE [q EXCEPT !.displayed =
                   SelectSeq(q.raw_results.items,
                             LAMBDA r : r[2] >= q.current_threshold)]
          : q \in {p} })

\* ClassifierPanel.clear_results
clear_results(p) ==
    _clear_results_widgets([p EXCEPT !.raw_results = NoRawResults,
                                     !.raw_task = 0])

\* ClassifierPanel._on_analysis_started
_on_analysis_started(p) == _clear_results_widgets(p)

\* ClassifierPanel._on_analysis_finished
_on_analysis_finished(p, results, task) ==
    _update_displayed_tags([p EXCEPT !.raw_results = RawResults(results),
                                     !.raw_task = task])

\* ClassifierPanel._on_analysis_error
_on_analysis_error(p, error_message) ==
    IF error_message[1] = "Model is loading"
    THEN p
    ELSE _clear_results_widgets(p)

\* ClassifierPanel._save_threshold_setting
_save_threshold_setting(p, value) == [p EXCEPT !.config_threshold = value]

\* The results list a finished signal carries: the worker's post-processing
\* of the logits of its model.
ResultsList(results) == PostProcess(logits, Vocabulary)

\* The slot the panel connected to one emitted signal.
PanelSlot(p, s) ==
    CASE s.sig = "analysis_started" -> _on_analysis_started(p)
      [] s.sig = "analysis_finished" ->
            _on_analysis_finished(p, ResultsList(s.results), s.task)
      [] OTHER -> _on_analysis_error(p, s.msg)

\* The panel after the slots of the signals a handler emitted, in order.
RECURSIVE AfterSlots(_, _, _)
AfterSlots(p, signals, i) ==
    IF i > Len(signals) THEN p
    ELSE AfterSlots(PanelSlot(p, signals[i]), signals, i + 1)

\* The panel after a handler of the manager that leaves the manager as w.
PanelAfter(p, w) == AfterSlots(p, w.emitted, Len(emitted) + 1)

\* The state after a handler of the manager: the manager as the handler
\* leaves it, the panel as the slots of the emitted signals leave it.  The
\* handler's result and the panel's are each bound once, as values.
Commit(w) ==
    \E after \in {w} :
       /\ CommitManager(after)
       /\ \E p \in {PanelAfter(Panel, after)} : CommitPanel(p)

\* ------------------------------------------------------------ construction
\* ClassifierManager.__init__ on a classifiers directory and a saved id.
Construct(filesystem, saved_id) ==
    LET ids == _discover_models(filesystem)
        blank == [ available_model_ids |-> ids,
                   active_model_id |-> None,
                   model_path |-> NoPath,
                   tags_path |-> NoPath,
                   model |-> NoObj,
                   allowed_tags |-> NoObj,
                   device |-> None,
                   is_loading |-> FALSE,
                   pending_analysis_path |-> None,
                   load_pool |-> {},
                   analysis_pool |-> {},
                   event_queue |-> << >>,
                   emitted |-> << >>,
                   n_loads |-> 0,
                   n_tasks |-> 0,
                   pending_req |-> 0,
                   failed |-> FALSE ]
    IN  IF ids = << >>
        THEN Emit(blank, "error_occurred",
                  Msg("No valid classifier models found.", ""), 0, 0, NoResults)
        ELSE IF saved_id # None /\ saved_id \in SeqToSet(ids)
        THEN _set_paths_for_active_model(blank, filesystem, saved_id)
        ELSE _set_paths_for_active_model(blank, filesystem, ids[1])

\* The state right after ClassifierManager.__init__ in environment env.
Started(env) ==
    LET w == Construct(env.fs, env.saved_id)
    IN  /\ fs = env.fs
        /\ cuda_is_available = env.cuda
        /\ available_model_ids = w.available_model_ids
        /\ active_model_id = w.active_model_id
        /\ model_path = w.model_path
        /\ tags_path = w.tags_path
        /\ model = w.model
        /\ allowed_tags = w.allowed_tags
        /\ device = w.device
        /\ is_loading = w.is_loading
        /\ pending_analysis_path = w.pending_analysis_path
        /\ load_pool = w.load_pool
        /\ analysis_pool = w.analysis_pool
        /\ event_queue = w.event_queue
        /\ emitted = w.emitted
        /\ n_loads = w.n_loads
        /\ n_tasks = w.n_tasks
        /\ pending_req = w.pending_req
        /\ failed = w.failed
        /\ n_requests = 0
        /\ requested = << >>
        /\ overwritten = {}
        /\ last_selected = None
        /\ n_switches = 0
        /\ released = {}

\* The state right after ClassifierPanel.__init__: nothing cached, the
\* spinbox at the configured threshold.
PanelStarted(threshold) ==
    /\ raw_results = NoRawResults
    /\ raw_task = 0
    /\ current_threshold = threshold
    /\ config_threshold = threshold
    /\ displayed = << >>

\* The configured threshold of a fresh config, 0.30, in thousandths.
DefaultThreshold == 300

\* No image has been preprocessed for JTP-3: there are no buffers yet.
NoBuffers(hw) ==
    /\ file_hw = hw
    /\ processed_size = << >>
    /\ patches = << >>
    /\ patch_coords = << >>
    /\ patch_valid = << >>

\* A Python exception: its class and str(e).
Exception(type, message) == [type |-> type, message |-> message]
NoException == Exception("", << >>)

\* A model object: the layout of its head and the width of its output.
Model(head, num_classes) == [head |-> head, num_classes |-> num_classes]
NoModel == Model("", 0)

\* What a loader returns, (model, allowed_tags), or the exception it raises.
Returned(mdl, tags) == [raised |-> NoException, model |-> mdl, allowed_tags |-> tags]
RaisedInLoad(e) == [raised |-> e, model |-> NoModel, allowed_tags |-> << >>]

\* No loader of the inference module has run and no inference was made.
NothingLoaded(id, items, weights) ==
    /\ folder_id = id
    /\ tags_data = items
    /\ state_dict = weights
    /\ loader = None
    /\ loaded = Returned(NoModel, << >>)
    /\ head_input = << >>
    /\ returned_probabilities = << >>

\* A HydraPool: whether it has roots, its buffers q and cls (a sequence of
\* vectors each), and _q_normed as "None", "False" or "True".
HydraPoolOf(has_roots, q, cls, q_normed) ==
    [has_roots |-> has_roots, q |-> q, cls |-> cls, q_normed |-> q_normed]

\* A JTP-3 safetensors file: modelspec.architecture less its base name,
\* and the tensors and the extra state of attn_pool.
Checkpoint(arch_suffix, pool) == [arch_suffix |-> arch_suffix, attn_pool |-> pool]

\* What Fit.forward returns: the image, of which the size matters, or the
\* exception it raises.  A size is PIL's (width, height).
FitResult(exception, size) == [raised |-> exception, size |-> size]

\* No image has been preprocessed for JTP-2.
NothingFitted ==
    /\ fit_called = None
    /\ fit_input = <<384, 384>>
    /\ fit_grow = TRUE
    /\ fitted = FitResult(NoException, << >>)
    /\ tensor_shape = << >>

\* The locals of a call of get_image_size_for_seq at the position pc, and
\* the exception that left it.  Ratios are whole numbers of a unit.
SearchAt(pc, args, locals, exception) ==
    [ pc |-> pc, h |-> args.h, w |-> args.w, patch_size |-> args.patch_size,
      max_seq_len |-> args.max_seq_len, eps |-> args.eps,
      max_py |-> locals.max_py, max_px |-> locals.max_px,
      ratio |-> locals.ratio, max_ratio |-> locals.max_ratio,
      py |-> locals.py, px |-> locals.px, raised |-> exception ]

\* get_image_size_for_seq has not been called.
NotSearching ==
    search = SearchAt("idle",
                      [h |-> 0, w |-> 0, patch_size |-> 0, max_seq_len |-> 0,
                       eps |-> 0],
                      [max_py |-> 0, max_px |-> 0, ratio |-> 0, max_ratio |-> 0,
                       py |-> 0, px |-> 0],
                      NoException)

NoPool == HydraPoolOf(FALSE, << >>, << >>, "None")
NoCheckpoint == Checkpoint("", NoPool)

\* No JTP-3 model has been loaded and no HydraPool made.
NoHydraPool ==
    /\ checkpoint = NoCheckpoint
    /\ attn_pool = NoPool
    /\ pool_from = None
    /\ n_qk_norm = 0
    /\ n_forward = 0
    /\ used_q = << >>

\* The folder of the manager's runs: JTP_PILOT with its three tags.
PilotFolder ==
    NothingLoaded("JTP_PILOT", <<<<"red", 0>>, <<"blue", 1>>, <<"green", 2>>>>,
                  Model("plain", 3))

Init ==
    /\ \E env \in Environments : Started(env)
    /\ PanelStarted(DefaultThreshold)
    /\ logits = <<2, -2, 0>>
    /\ NoBuffers(<<16, 16>>)
    /\ PilotFolder
    /\ NoHydraPool
    /\ NothingFitted
    /\ NotSearching

\* ---------------------------------------------------------------- actions
\* The caller asks for the analysis of an image.
RequestAnalysis ==
    /\ n_requests < MaxRequests
    /\ \E image_path \in ImagePaths :
          /\ Commit(request_analysis(World, image_path, n_requests + 1))
          /\ requested' = Append(requested, image_path)
    /\ n_requests' = n_requests + 1
    /\ overwritten' = IF pending_req # 0 /\ pending_req' # pending_req
                      THEN overwritten \cup {pending_req}
                      ELSE overwritten
    /\ UNCHANGED <<fs, cuda_is_available, n_switches, last_selected>>

\* What loading the tags and the weights can end in.
LoadOutcomes == {"loaded", "FileNotFoundError", "Exception"}

\* LoadModelWorker.run: exactly one of model_loaded and loading_error.
LoadModelWorker_run(t, outcome) ==
    CASE outcome = "loaded" ->
            Queued("model_loaded", NoMsg, 0, 0, t.id, t.id,
                   IF t.worker.use_gpu_preference /\ cuda_is_available
                   THEN "cuda" ELSE "cpu",
                   NoResults)
      [] outcome = "FileNotFoundError" ->
            Queued("loading_error", Msg("Model file not found at ", "model_path"),
                   0, 0, NoObj, NoObj, None, NoResults)
      [] OTHER ->
            Queued("loading_error", Msg("Error during model loading: ", outcome),
                   0, 0, NoObj, NoObj, None, NoResults)

\* A load task runs to its end on a pool thread.
RunLoadModelWorker ==
    /\ \E t \in load_pool, outcome \in LoadOutcomes :
          Commit([World EXCEPT
                    !.load_pool = @ \ {t},
                    !.event_queue = Append(@, LoadModelWorker_run(t, outcome))])
    /\ UNCHANGED <<fs, cuda_is_available, caller_vars>>

\* What the forward pass and the post-processing can end in.
AnalysisOutcomes == {"finished", "Exception"}

\* AnalysisWorker.run: exactly one of finished and error.
AnalysisWorker_run(t, outcome) ==
    IF outcome = "finished" /\ RunModel(t.worker) # NoObj
                            /\ RunTags(t.worker) # NoObj
    THEN Queued("finished", NoMsg, t.req, t.id, NoObj, NoObj, None,
                [model |-> RunModel(t.worker),
                 allowed_tags |-> RunTags(t.worker),
                 image |-> t.worker.tensor.image])
    ELSE Queued("error", Msg("", "Exception"), t.req, t.id, NoObj, NoObj, None,
                NoResults)

\* An inference task runs to its end on a pool thread.
RunAnalysisWorker ==
    /\ \E t \in analysis_pool, outcome \in AnalysisOutcomes :
          Commit([World EXCEPT
                    !.analysis_pool = @ \ {t},
                    !.event_queue = Append(@, AnalysisWorker_run(t, outcome))])
    /\ UNCHANGED <<fs, cuda_is_available, caller_vars>>

\* The GUI thread takes the next queued signal and runs the connected slot.
Deliver(sig, w) ==
    /\ event_queue # << >>
    /\ Head(event_queue).sig = sig
    /\ Commit(w)
    /\ UNCHANGED <<fs, cuda_is_available, caller_vars>>

Rest == [World EXCEPT !.event_queue = Tail(@)]

DeliverModelLoaded ==
    Deliver("model_loaded", _handle_model_loaded(Rest, Head(event_queue)))

DeliverLoadingError ==
    Deliver("loading_error", _handle_loading_error(Rest, Head(event_queue)))

DeliverWorkerResult ==
    Deliver("finished", _handle_worker_result(Rest, Head(event_queue)))

DeliverWorkerError ==
    Deliver("error", _handle_worker_error(Rest, Head(event_queue)))

\* The states of the manager, read off its attributes.
Ready == model # NoObj /\ allowed_tags # NoObj
Loading == ~Ready /\ is_loading
Failed == ~Ready /\ ~is_loading /\ failed
Unloaded == ~Ready /\ ~is_loading /\ ~failed

\* ClassifierPanel._handle_model_selection_changed: the user picks one of
\* the listed models while the manager is Ready or Failed.
HandleModelSelectionChanged ==
    /\ n_switches < MaxSwitches
    /\ Ready \/ Failed
    /\ \E selected_model_id \in SeqToSet(available_model_ids) :
          /\ LET w == set_active_model(World, fs, selected_model_id)
             IN  /\ CommitManager(w)
                 /\ CommitPanel(clear_results(PanelAfter(Panel, w)))
          /\ last_selected' = selected_model_id
    /\ n_switches' = n_switches + 1
    /\ UNCHANGED <<fs, cuda_is_available, n_requests, requested, overwritten>>

Next ==
    \/ RequestAnalysis
    \/ RunLoadModelWorker
    \/ RunAnalysisWorker
    \/ DeliverModelLoaded
    \/ DeliverLoadingError
    \/ DeliverWorkerResult
    \/ DeliverWorkerError
    \/ HandleModelSelectionChanged

Spec == Init /\ [][Next]_vars

\* ------------------------------------------------- reading a behaviour
\* The step is a request_analysis call of the caller.
IsRequestStep == n_requests' = n_requests + 1
\* The step is a model switch of the user.
IsSwitchStep == n_switches' = n_switches + 1
\* The step is the GUI thread running the slot connected to signal sig.
IsDelivery(sig) ==
    /\ event_queue # << >>
    /\ Head(event_queue).sig = sig
    /\ event_queue' = Tail(event_queue)
\* The path the request_analysis call of this step was given.
StepPath == requested'[Len(requested')]

\* Load tasks in flight: in the pool, or ended with their signal not yet
\* handled by the manager.
LoadsInFlight ==
    Cardinality(load_pool)
    + Cardinality({i \in 1..Len(event_queue) :
                      event_queue[i].sig \in {"model_loaded", "loading_error"}})

\* Inference tasks in flight, by id.
TasksInFlight ==
    ( {t.id : t \in analysis_pool}
      \cup {event_queue[i].task : i \in 1..Len(event_queue)} ) \ {0}

\* The positions of the emitted log that hold signal sig for task k.
Emitted(sig, k) ==
    {i \in 1..Len(emitted) : emitted[i].sig = sig /\ emitted[i].task = k}

\* ------------------------------------------------------------------- C1
\* C1: while no model is loaded and the paths are set, the first
\* request_analysis call spawns exactly one load task, a call made while a
\* load is in progress spawns none, and at most one load task is in flight
\* in every reachable state (is_loading tells exactly whether one is).
C1_SingleLoadTask ==
    /\ [](LoadsInFlight <= 1 /\ (is_loading <=> LoadsInFlight = 1))
    /\ [][IsRequestStep =>
            /\ is_loading =>
                  /\ n_loads' = n_loads
                  /\ load_pool' = load_pool
                  /\ is_loading'
            /\ (Unloaded /\ model_path # NoPath /\ tags_path # NoPath) =>
                  /\ n_loads' = n_loads + 1
                  /\ Cardinality(load_pool') = 1
                  /\ is_loading']_vars

\* Two calls were made, the second while the load of the first was running.
C1_Witness ==
    /\ n_requests = 2
    /\ n_loads = 1
    /\ is_loading
    /\ overwritten = {1}

\* ------------------------------------------------------------------- C2
\* While a load is in progress the pending path is the path of the latest
\* call.
PendingIsLatest ==
    is_loading =>
        /\ pending_req = n_requests
        /\ pending_analysis_path = requested[n_requests]

\* No signal was emitted and no inference task exists for a call whose
\* pending path a later call replaced.
OverwrittenAreSilent ==
    /\ \A i \in 1..Len(emitted) : emitted[i].req \notin overwritten
    /\ \A t \in analysis_pool : t.req \notin overwritten
    /\ \A i \in 1..Len(event_queue) : event_queue[i].req \notin overwritten

\* The step dispatched exactly one inference task, for call req and path.
DispatchedOne(req, path) ==
    /\ n_tasks' = n_tasks + 1
    /\ \E t \in analysis_pool' :
          /\ analysis_pool' = analysis_pool \cup {t}
          /\ t \notin analysis_pool
          /\ t.id = n_tasks'
          /\ t.req = req
          /\ t.worker.tensor.image = path
          /\ t.worker.model = model'
          /\ t.worker.allowed_tags = allowed_tags'
    /\ Len(emitted') = Len(emitted) + 1
    /\ emitted'[Len(emitted')].sig = "analysis_started"
    /\ emitted'[Len(emitted')].req = req

\* The step emitted exactly one error_occurred, for call req, and
\* dispatched nothing.
RefusedWithError(req) ==
    /\ n_tasks' = n_tasks
    /\ analysis_pool' = analysis_pool
    /\ Len(emitted') = Len(emitted) + 1
    /\ emitted'[Len(emitted')].sig = "error_occurred"
    /\ emitted'[Len(emitted')].req = req

\* C2 as stated: with calls p1..pn made before the load completes, the
\* pending path is always the latest one, load success dispatches exactly
\* one analysis, for pn, and nothing is ever dispatched or emitted for an
\* overwritten p1..p(n-1).
C2_LatestPathDispatched ==
    /\ [](PendingIsLatest /\ OverwrittenAreSilent)
    /\ [][(IsDelivery("model_loaded") /\ pending_analysis_path # None) =>
            DispatchedOne(pending_req, pending_analysis_path)]_vars

\* C2 as amended: load success dispatches exactly one analysis for pn when
\* pn can be opened and preprocessed; when it cannot, it emits exactly one
\* error for pn and dispatches nothing.  The rest is as stated.
C2_LatestPathServed ==
    /\ [](PendingIsLatest /\ OverwrittenAreSilent)
    /\ [][(IsDelivery("model_loaded") /\ pending_analysis_path # None) =>
            /\ Ready'
            /\ pending_analysis_path' = None
            /\ load_pool' = load_pool
            /\ IF OpenImage(pending_analysis_path) = "ok"
               THEN DispatchedOne(pending_req, pending_analysis_path)
               ELSE RefusedWithError(pending_req)]_vars

\* The load completed after two calls, and the one task that exists is for
\* the second call's path; nothing exists for the first.
C2_Witness ==
    /\ Ready
    /\ overwritten = {1}
    /\ requested = <<"a.png", "b.png">>
    /\ \E t \in analysis_pool :
          /\ analysis_pool = {t}
          /\ t.req = 2
          /\ t.worker.tensor.image = "b.png"
    /\ Len(emitted) = 1
    /\ emitted[1].req = 2

\* ------------------------------------------------------------------- C3
\* C3: in Ready, a request_analysis call for a readable image dispatches
\* exactly one inference task and returns with the task still in the pool,
\* starts no load, leaves the manager Ready with the same model, and does
\* so whatever the number of tasks already in flight.
C3_ReadyDispatchesEveryRequest ==
    [][(IsRequestStep /\ Ready /\ OpenImage(StepPath) = "ok") =>
            /\ DispatchedOne(n_requests', StepPath)
            /\ n_tasks' \notin {emitted'[i].task : i \in 1..Len(emitted)}
            /\ event_queue' = event_queue
            /\ n_loads' = n_loads
            /\ load_pool' = load_pool
            /\ ~is_loading'
            /\ Ready'
            /\ model' = model
            /\ allowed_tags' = allowed_tags]_vars

\* A request made in Ready while the task of the earlier request was still
\* in the pool: both tasks are in the pool.
C3_Witness ==
    /\ Ready
    /\ n_requests = 2
    /\ Cardinality(analysis_pool) = 2
    /\ overwritten = {}

\* ------------------------------------------------------------------- C4
\* The emissions that end task k: analysis_finished, or the error_occurred
\* that relays the worker's error signal.
Ended(k) == Emitted("analysis_finished", k) \cup Emitted("error_occurred", k)

\* Emissions counted over all tasks.
CountOf(sig) ==
    Cardinality({i \in 1..Len(emitted) :
                    emitted[i].sig = sig /\ emitted[i].task # 0})

\* C4: every dispatched inference task has exactly one analysis_started,
\* emitted before the task can run; once the task is no longer in flight it
\* has exactly one of analysis_finished and error_occurred, emitted after
\* its analysis_started, and none while it is in flight; finished plus
\* task-error emissions never exceed the started ones.
C4_OneStartedOneOutcome ==
    /\ \A k \in 1..n_tasks :
          /\ Cardinality(Emitted("analysis_started", k)) = 1
          /\ Cardinality(Ended(k)) = IF k \in TasksInFlight THEN 0 ELSE 1
          /\ \A i \in Emitted("analysis_started", k), j \in Ended(k) : i < j
    /\ \A i \in 1..Len(emitted) : emitted[i].task \in 0..n_tasks
    /\ CountOf("analysis_finished") + CountOf("error_occurred")
          <= CountOf("analysis_started")
    /\ TasksInFlight \subseteq 1..n_tasks

\* Two tasks were dispatched; one ended in finished and the other in error.
C4_Witness ==
    /\ n_tasks = 2
    /\ TasksInFlight = {}
    /\ CountOf("analysis_finished") = 1
    /\ CountOf("error_occurred") = 1

\* ------------------------------------------------------------------- C5
\* C5: a failing load task emits exactly one loading_error, and when the
\* manager handles it, it leaves Loading, clears the pending path, emits
\* exactly one error_occurred and dispatches no analysis for the path that
\* was pending.
C5_LoadFailureClearsPending ==
    [][IsDelivery("loading_error") =>
            /\ Loading
            /\ pending_analysis_path # None
            /\ ~Loading'
            /\ ~is_loading'
            /\ pending_analysis_path' = None
            /\ RefusedWithError(pending_req)
            /\ emitted'[Len(emitted')].msg[1] = "Model loading failed: "
            /\ load_pool' = load_pool
            /\ \A i \in 1..Len(event_queue') :
                  event_queue'[i].sig \notin {"model_loaded", "loading_error"}]_vars

\* The load failed after a call that stored a pending path: the manager is
\* not loading, nothing is pending, and the error is the only emission.
C5_Witness ==
    /\ failed
    /\ ~is_loading
    /\ n_requests = 1
    /\ pending_analysis_path = None
    /\ Len(emitted) = 1
    /\ emitted[1].msg[1] = "Model loading failed: "
    /\ n_tasks = 0

\* ------------------------------------------------------------------- C6
\* C6: in every reachable state the model handle, the tag vocabulary and
\* the device are all set or all unset, and after a load failure all three
\* are unset.
C6_NoHalfLoadedState ==
    /\ \/ model = NoObj /\ allowed_tags = NoObj /\ device = None
       \/ model # NoObj /\ allowed_tags # NoObj /\ device # None
    /\ failed => (model = NoObj /\ allowed_tags = NoObj /\ device = None)

\* A load failed after an earlier load had succeeded and set all three.
C6_Witness ==
    /\ failed
    /\ n_loads = 2
    /\ released # {}
    /\ model = NoObj /\ allowed_tags = NoObj /\ device = None

\* ------------------------------------------------------------------- C7
\* C7: after a load failure and until the active model is switched, a
\* request_analysis call starts no load task: it emits the error "Model
\* failed to load previously." and leaves the manager Failed.
C7_FailedUntilSwitch ==
    [][(IsRequestStep /\ Failed) =>
            /\ n_loads' = n_loads
            /\ load_pool' = load_pool
            /\ ~is_loading'
            /\ Failed'
            /\ Len(emitted') = Len(emitted) + 1
            /\ emitted'[Len(emitted')].msg[1] = "Model failed to load previously."]_vars

\* ------------------------------------------------------------------- C8
\* The paths of model id's files in the classifiers directory.
WeightsPathOf(id) ==
    LET files == ListModelFolder(fs, id)
    IN  [folder |-> id, stem |-> files[FirstSafetensors(files)].stem,
         ext |-> files[FirstSafetensors(files)].ext]
TagsPathOf(id) == [folder |-> id, stem |-> "tags", ext |-> ".json"]

\* C8: a switch made in Ready or Failed to an available id leaves the
\* manager Unloaded for that id (model, vocabulary and device cleared, the
\* active id and both paths those of the new model), and the next
\* request_analysis spawns one load task for the new model's weights and
\* vocabulary.
C8_SwitchUnloadsForNewModel ==
    /\ [][IsSwitchStep =>
            /\ Ready \/ Failed
            /\ Unloaded'
            /\ model' = NoObj /\ allowed_tags' = NoObj /\ device' = None
            /\ active_model_id' = last_selected'
            /\ model_path' = WeightsPathOf(last_selected')
            /\ tags_path' = TagsPathOf(last_selected')
            /\ load_pool' = load_pool
            /\ analysis_pool' = analysis_pool]_vars
    /\ [][(IsRequestStep /\ Unloaded /\ n_switches > 0) =>
            /\ n_loads' = n_loads + 1
            /\ \E t \in load_pool' :
                  /\ load_pool' = {t}
                  /\ t.id = n_loads'
                  /\ t.worker.model_path = WeightsPathOf(last_selected)
                  /\ t.worker.tags_path = TagsPathOf(last_selected)]_vars

\* After a switch from the model loaded first to the other one, a call
\* spawned the load task of the other model's files.
C8_Witness ==
    /\ fs = TwoModelsDir
    /\ n_switches = 1
    /\ n_loads = 2
    /\ is_loading
    /\ active_model_id = last_selected
    /\ 1 \in released
    /\ \E t \in load_pool :
          /\ t.worker.model_path = WeightsPathOf(last_selected)
          /\ t.worker.model_path # WeightsPathOf(available_model_ids[1])

\* ------------------------------------------------------------------- C9
\* C9: an inference task runs on the model and the vocabulary the manager
\* had when it dispatched the task, whatever the manager's model,
\* vocabulary and active id have become since; a model an in-flight task
\* holds is not released, and a released model has no holder.
C9_TaskKeepsCapturedModel ==
    /\ \A t \in analysis_pool :
          /\ t.worker.model # NoObj
          /\ t.worker.model \notin released
          /\ \E i \in Emitted("analysis_started", t.id) :
                /\ emitted[i].results.model = t.worker.model
                /\ emitted[i].results.allowed_tags = t.worker.allowed_tags
    /\ \A k \in 1..n_tasks :
          \A i \in Emitted("analysis_started", k) :
             /\ \A j \in Emitted("analysis_finished", k) :
                   emitted[j].results = emitted[i].results
             /\ \A j \in 1..Len(event_queue) :
                   (event_queue[j].sig = "finished" /\ event_queue[j].task = k)
                      => event_queue[j].results = emitted[i].results
    /\ released \cap Holders(World) = {}
    /\ (model # NoObj) => model \notin released

\* A task finished on the first model after the manager had switched and
\* loaded a second model.
C9_Witness ==
    /\ n_switches = 1
    /\ model = 2
    /\ \E j \in Emitted("analysis_finished", 1) :
          /\ emitted[j].results.model = 1
          /\ 1 \in released

\* A task still in the pool holds the first model after the switch dropped
\* the manager's reference to it.
C9_HeldWitness ==
    /\ n_switches = 1
    /\ model = NoObj
    /\ \E t \in analysis_pool : t.worker.model = 1
    /\ released = {}

\* ------------------------------------------------------------------ C10
\* C10: an exception in a load task or an inference task leaves the task as
\* exactly one queued signal, which the manager relays as exactly one
\* error_occurred; the other tasks stay in the pool; an inference-task
\* error changes nothing of the manager, which stays Ready until the model
\* is switched.
C10_ErrorsAreRelayedOnce ==
    /\ [][IsDelivery("error") =>
            /\ RefusedWithError(Head(event_queue).req)
            /\ emitted'[Len(emitted')].task = Head(event_queue).task
            /\ emitted'[Len(emitted')].msg = Head(event_queue).msg
            /\ UNCHANGED << model, allowed_tags, device, is_loading,
                            pending_analysis_path, load_pool, active_model_id,
                            model_path, tags_path >>]_vars
    /\ [][IsDelivery("loading_error") =>
            /\ RefusedWithError(pending_req)
            /\ analysis_pool' = analysis_pool]_vars
    /\ [][(Len(event_queue') = Len(event_queue) + 1) =>
            /\ emitted' = emitted
            /\ \/ /\ load_pool' = load_pool
                  /\ \E t \in analysis_pool : analysis_pool' = analysis_pool \ {t}
               \/ /\ analysis_pool' = analysis_pool
                  /\ \E t \in load_pool : load_pool' = load_pool \ {t}]_vars
    /\ [][(Ready /\ ~IsSwitchStep) => Ready']_vars

\* An inference task ended in an error, and the request made after the
\* error was relayed was dispatched.
C10_Witness ==
    /\ Ready
    /\ \E i \in 1..Len(emitted) :
          /\ emitted[i].sig = "error_occurred"
          /\ emitted[i].task = 1
          /\ \E j \in Emitted("analysis_started", 2) : i < j
    /\ \E t \in analysis_pool : t.id = 2

\* ------------------------------------------------------------------ C11
\* Inference task k runs to its end on a pool thread.
RunAnalysisTask(k) ==
    /\ k \in {t.id : t \in analysis_pool}
    /\ RunAnalysisWorker
    /\ k \notin {t.id : t \in analysis_pool'}

\* The GUI thread's event loop runs the slot of the signal at the head of
\* its queue.
DeliverNext ==
    \/ DeliverModelLoaded
    \/ DeliverLoadingError
    \/ DeliverWorkerResult
    \/ DeliverWorkerError

\* QThreadPool runs every runnable handed to start(), and the event loop
\* never stops taking queued signals.
Fairness ==
    /\ WF_vars(RunLoadModelWorker)
    /\ \A k \in 1..MaxRequests : WF_vars(RunAnalysisTask(k))
    /\ WF_vars(DeliverNext)

FairSpec == Spec /\ Fairness

\* C11: nothing is cancelled.  Under fair scheduling of the pool, whenever
\* a load task has been spawned the manager later is out of Loading;
\* whenever inference task k has been dispatched it later is out of flight,
\* and then it has got its analysis_finished or its error_occurred; a
\* request made meanwhile takes no task out of the pool and no signal out
\* of the event queue, so two tasks in flight together both get theirs.
C11_NoCancellation ==
    /\ []<>(~is_loading /\ load_pool = {})
    /\ \A k \in 1..MaxRequests : []<>(k \notin TasksInFlight)
    /\ [](\A k \in 1..n_tasks :
            k \notin TasksInFlight => Cardinality(Ended(k)) = 1)
    /\ [][IsRequestStep =>
            /\ analysis_pool \subseteq analysis_pool'
            /\ event_queue' = event_queue
            /\ TasksInFlight \subseteq TasksInFlight']_vars

\* Two requests were made in Ready, the second before the first one's task
\* ended, and both results were delivered.
C11_Witness ==
    /\ n_tasks = 2
    /\ Emitted("analysis_finished", 1) # {}
    /\ Emitted("analysis_finished", 2) # {}
    /\ \A i \in Emitted("analysis_started", 2) :
          \A j \in Emitted("analysis_finished", 1) : i < j
    /\ emitted[1].sig = "analysis_started"
    /\ emitted[2].sig = "analysis_started"

\* ------------------------------------------------- model discovery runs
\* Number of entries the classifiers directory holds in these runs.
MaxFolders == 1

NotesFile == [stem |-> "notes", ext |-> ".txt"]
EntryNames == SUPPORTED_MODELS \cup {"OTHER"}
Files == {TagsFile, WeightsFile, UpperWeightsFile, NotesFile}
\* Values of the config key classifier_active_model_id.
SavedIds == {None, "JTP_PILOT", "JTP_PILOT2"}
EmptyClassifiersDir == [exists |-> TRUE, entries |-> << >>]

\* os.listdir gives no order: a new name can show up at any position.
InsertAt(s, p, x) == SubSeq(s, 1, p - 1) \o <<x>> \o SubSeq(s, p, Len(s))
RemoveAt(s, p) == SubSeq(s, 1, p - 1) \o SubSeq(s, p + 1, Len(s))

\* The application is started on directory d: __init__ scans it.
Restart(d) ==
    /\ fs' = d
    /\ \E saved_id \in SavedIds : Commit(Construct(d, saved_id))
    /\ UNCHANGED <<cuda_is_available, caller_vars>>

MakeClassifiersDir ==
    /\ ~fs.exists
    /\ Restart(EmptyClassifiersDir)

\* A folder or a plain file appears in the classifiers directory.
MakeEntry ==
    /\ fs.exists
    /\ Len(fs.entries) < MaxFolders
    /\ \E name \in EntryNames, is_dir \in BOOLEAN, p \in 1..(Len(fs.entries) + 1) :
          /\ \A i \in 1..Len(fs.entries) : fs.entries[i].name # name
          /\ Restart([fs EXCEPT !.entries =
                InsertAt(@, p, [name |-> name, is_dir |-> is_dir, files |-> << >>])])

\* A file appears in one of the folders.
PutFile ==
    \E i \in 1..Len(fs.entries), file \in Files :
       /\ fs.entries[i].is_dir
       /\ file \notin SeqToSet(fs.entries[i].files)
       /\ \E p \in 1..(Len(fs.entries[i].files) + 1) :
             Restart([fs EXCEPT !.entries[i].files = InsertAt(@, p, file)])

\* A file is removed from one of the folders.
RemoveFile ==
    \E i \in 1..Len(fs.entries) :
       \E j \in 1..Len(fs.entries[i].files) :
          Restart([fs EXCEPT !.entries[i].files = RemoveAt(@, j)])

DiscoveryInit ==
    /\ \E saved_id \in SavedIds :
          Started([fs |-> NoClassifiersDir, saved_id |-> saved_id, cuda |-> FALSE])
    /\ PanelStarted(DefaultThreshold)
    /\ logits = <<2, -2, 0>>
    /\ NoBuffers(<<16, 16>>)
    /\ PilotFolder
    /\ NoHydraPool
    /\ NothingFitted
    /\ NotSearching

DiscoveryNext ==
    \/ MakeClassifiersDir
    \/ MakeEntry
    \/ PutFile
    \/ RemoveFile

DiscoverySpec == DiscoveryInit /\ [][DiscoveryNext]_vars

\* ------------------------------------------------------------------ C12
\* The files a directory holds in the folder called name.
FilesIn(d, name) ==
    IF ~d.exists THEN {}
    ELSE UNION {SeqToSet(d.entries[i].files) :
                  i \in {k \in 1..Len(d.entries) :
                            d.entries[k].name = name /\ d.entries[k].is_dir}}
\* The weights files among them.
WeightsIn(d, name) ==
    {f \in FilesIn(d, name) : f.ext \in {".safetensors", ".SAFETENSORS"}}

C13_ExactlyOneWeightsFile ==
    \A name \in SUPPORTED_MODELS :
        (TagsFile \in FilesIn(fs, name) /\ Cardinality(WeightsIn(fs, name)) >= 2)
            => name \notin SeqToSet(available_model_ids)

\* C13 as amended: one weights file is enough and more are accepted.  A
\* supported subdirectory that holds the vocabulary file and two or more
\* weights files is returned as a valid model id, and when it is the active
\* model the weights path is the first weights file of the listing.
C13_FirstWeightsFileIsUsed ==
    \A name \in SUPPORTED_MODELS :
        (TagsFile \in FilesIn(fs, name) /\ Cardinality(WeightsIn(fs, name)) >= 2)
            => /\ name \in SeqToSet(available_model_ids)
               /\ active_model_id = name =>
                     LET files == ListModelFolder(fs, name)
                     IN  \E k \in 1..Len(files) :
                            /\ files[k] \in WeightsIn(fs, name)
                            /\ \A j \in 1..(k - 1) :
                                  files[j] \notin WeightsIn(fs, name)
                            /\ model_path = [folder |-> name,
                                             stem |-> files[k].stem,
                                             ext |-> files[k].ext]
                            /\ tags_path = [folder |-> name, stem |-> "tags",
                                            ext |-> ".json"]

\* A folder with the vocabulary file and two weights files is the active
\* model, with the weights file listed first as its weights path.
C13_Witness ==
    /\ fs.exists
    /\ fs.entries = << Folder("JTP_PILOT",
                              <<TagsFile, UpperWeightsFile, WeightsFile>>) >>
    /\ available_model_ids = <<"JTP_PILOT">>
    /\ active_model_id = "JTP_PILOT"
    /\ model_path = [folder |-> "JTP_PILOT", stem |-> "MODEL",
                     ext |-> ".SAFETENSORS"]

\* ------------------------------------------------------------------ C14
\* C14: with the classifiers directory missing, discovery returns the empty
\* list and the manager is constructed (with no active model and no
\* paths); every request_analysis call then emits error_occurred and
\* nothing else, starts no load task, dispatches nothing and stores no
\* pending path.
C14_MissingRootRefusesRequests ==
    /\ [](~fs.exists =>
            /\ available_model_ids = << >>
            /\ active_model_id = None
            /\ model_path = NoPath /\ tags_path = NoPath
            /\ Unloaded
            /\ n_loads = 0 /\ load_pool = {}
            /\ n_tasks = 0 /\ analysis_pool = {}
            /\ pending_analysis_path = None)
    /\ [][(IsRequestStep /\ ~fs.exists) =>
            /\ Len(emitted') > Len(emitted)
            /\ SubSeq(emitted', 1, Len(emitted)) = emitted
            /\ \A i \in (Len(emitted) + 1)..Len(emitted') :
                  emitted'[i].sig = "error_occurred"
            /\ n_loads' = n_loads
            /\ load_pool' = load_pool
            /\ ~is_loading'
            /\ pending_analysis_path' = None]_vars

\* Two calls were made with the classifiers directory missing, and every
\* emission is an error.
C14_Witness ==
    /\ ~fs.exists
    /\ n_requests = 2
    /\ Len(emitted) >= 3
    /\ \A i \in 1..Len(emitted) : emitted[i].sig = "error_occurred"
    /\ emitted[1].msg[1] = "No valid classifier models found."
    /\ n_loads = 0

\* ------------------------------------------------------------ panel runs
\* Number of clicks on the Analyze button in one run.
MaxClicks == 1

\* main_window.current_image_path
CurrentImagePath == "a.png"

\* The logit vectors of these runs: one logit per tag of the vocabulary,
\* and one vector with a logit the vocabulary has no tag for.
LogitVectors ==
    [1..Len(Vocabulary) -> LogitValues] \cup { <<2, -2, 0, 2>> }

\* ClassifierPanel._handle_analyze_clicked: no request while a load is in
\* progress, otherwise request_analysis for the current image.
AnalyzeClicked ==
    /\ n_requests < MaxClicks
    /\ IF is_loading
       THEN UNCHANGED vars
       ELSE /\ Commit(request_analysis(World, CurrentImagePath, n_requests + 1))
            /\ requested' = Append(requested, CurrentImagePath)
            /\ n_requests' = n_requests + 1
            /\ UNCHANGED <<fs, cuda_is_available, overwritten, n_switches,
                           last_selected>>

\* A valueChanged handler that also asks for a new analysis.
valueChanged_reanalyzing(pw, value) ==
    [ panel |-> _save_threshold_setting(
                    _update_displayed_tags(
                        [pw.panel EXCEPT !.current_threshold = value]),
                    value),
      manager |-> request_analysis(pw.manager, CurrentImagePath, 0) ]

\* threshold_spinbox.valueChanged: the two slots connected to it, run on
\* the panel pw.panel beside the manager pw.manager.
valueChanged(pw, value) ==
    [ panel |-> _save_threshold_setting(
                    _update_displayed_tags(
                        [pw.panel EXCEPT !.current_threshold = value]),
                    value),
      manager |-> pw.manager ]

\* The user sets the threshold spinbox to another value.
ThresholdChanged ==
    /\ \E value \in Thresholds \ {current_threshold} :
          LET after == valueChanged([panel |-> Panel, manager |-> World], value)
          IN  /\ CommitManager(after.manager)
              /\ CommitPanel(PanelAfter(after.panel, after.manager))
    /\ UNCHANGED <<fs, cuda_is_available, caller_vars>>

PanelInit ==
    /\ Started([fs |-> OneModelDir, saved_id |-> None, cuda |-> FALSE])
    /\ PanelStarted(DefaultThreshold)
    /\ logits \in LogitVectors
    /\ NoBuffers(<<16, 16>>)
    /\ PilotFolder
    /\ NoHydraPool
    /\ NothingFitted
    /\ NotSearching

PanelNext ==
    \/ AnalyzeClicked
    \/ RunLoadModelWorker
    \/ RunAnalysisWorker
    \/ DeliverModelLoaded
    \/ DeliverLoadingError
    \/ DeliverWorkerResult
    \/ DeliverWorkerError
    \/ ThresholdChanged
    \/ HandleModelSelectionChanged

PanelSpec == PanelInit /\ [][PanelNext]_vars

\* ------------------------------------------------------------------ C15
\* The position of a tag in the vocabulary.
VocabIndex(tag) == CHOOSE i \in 1..Len(Vocabulary) : Vocabulary[i] = tag

\* A list of (tag, score) pairs is in descending order of score, with the
\* pairs of equal score in vocabulary order.
RankedStably(list) ==
    \A i, j \in 1..Len(list) :
        i < j =>
            \/ list[i][2] > list[j][2]
            \/ /\ list[i][2] = list[j][2]
               /\ VocabIndex(list[i][1]) < VocabIndex(list[j][1])

\* The pairs the vocabulary and the logits give with a score of at least
\* floor (and above the internal threshold).
PairsFrom(floor) ==
    { <<Vocabulary[i], Sigmoid(logits[i])>> :
        i \in {k \in 1..Len(Vocabulary) :
                  /\ k <= Len(logits)
                  /\ Sigmoid(logits[k]) >= floor
                  /\ Sigmoid(logits[k]) > INTERNAL_THRESHOLD} }

\* C15: whatever the scores and the threshold T, every pair of the ranked
\* result has a score of at least T, the list is in descending order of
\* score, and pairs of equal score are in vocabulary order; the raw list
\* holds each scored tag once and the shown list, unless it was cleared,
\* holds exactly the pairs of the raw list with a score of at least T.
C15_RankedAboveThreshold ==
    /\ \A k \in 1..Len(displayed) : displayed[k][2] >= current_threshold
    /\ RankedStably(displayed)
    /\ RankedStably(raw_results.items)
    /\ ~raw_results.is_none =>
          /\ SeqToSet(raw_results.items) = PairsFrom(0)
          /\ Len(raw_results.items) = Cardinality(PairsFrom(0))
    /\ displayed # << >> =>
          /\ SeqToSet(displayed) = PairsFrom(current_threshold)
          /\ Len(displayed) = Cardinality(PairsFrom(current_threshold))

\* Two tags with the same score are shown in vocabulary order, in front of
\* a tag with a lower score, and a tag below the threshold is left out.
C15_Witness ==
    /\ logits = <<-2, 2, 2>>
    /\ current_threshold = 500
    /\ raw_results.items = << <<"blue", 881>>, <<"green", 881>>, <<"red", 119>> >>
    /\ displayed = << <<"blue", 881>>, <<"green", 881>> >>

\* ------------------------------------------------------------------ C16
\* C16 as stated: with the vocabulary [red, blue, green], the logits
\* [2.0, -2.0, 0.0] and the threshold 0.3, the result shown is the one pair
\* (red, about 0.88), with neither blue nor green.
C16_OnlyRed ==
    (logits = <<2, -2, 0>> /\ current_threshold = 300 /\ displayed # << >>)
        => /\ Len(displayed) = 1
           /\ displayed[1][1] = "red"
           /\ displayed[1][2] \in 875..885
           /\ \A k \in 1..Len(displayed) : displayed[k][1] \notin {"blue", "green"}

\* C16 as amended: the result shown is the two pairs (red, about 0.88) and
\* (green, 0.5), in this order, without blue: sigmoid(0.0) = 0.5 is not
\* below the threshold 0.3.
C16_RedThenGreen ==
    (logits = <<2, -2, 0>> /\ current_threshold = 300 /\ displayed # << >>)
        => /\ Len(displayed) = 2
           /\ displayed[1][1] = "red"
           /\ displayed[1][2] \in 875..885
           /\ displayed[2] = <<"green", 500>>
           /\ \A k \in 1..Len(displayed) : displayed[k][1] # "blue"

\* The analysis of the image finished with these logits and the panel
\* shows its result at the threshold 0.3.
C16_Witness ==
    /\ logits = <<2, -2, 0>>
    /\ current_threshold = 300
    /\ Emitted("analysis_finished", 1) # {}
    /\ raw_results.items = << <<"red", 881>>, <<"green", 500>>, <<"blue", 119>> >>
    /\ displayed = << <<"red", 881>>, <<"green", 500>> >>

\* ------------------------------------------------------------------ C17
\* The step is a change of the threshold spinbox.
IsThresholdStep == current_threshold' # current_threshold

\* C17: a change of the threshold shows the cached raw result filtered at
\* the new threshold; it makes no request_analysis call, dispatches no
\* inference task and starts no load; it leaves the manager, the pools,
\* the event queue and the cached raw result as they were.  The cached raw
\* result is that of the analysis that finished last.
C17_ThresholdChangeOnlyFilters ==
    /\ [][IsThresholdStep =>
            /\ displayed' = IF raw_results.is_none THEN << >>
                            ELSE SelectSeq(raw_results.items,
                                    LAMBDA r : r[2] >= current_threshold')
            /\ raw_results' = raw_results
            /\ raw_task' = raw_task
            /\ config_threshold' = current_threshold'
            /\ UNCHANGED << n_requests, requested, n_tasks, n_loads, load_pool,
                            analysis_pool, event_queue, emitted, model,
                            allowed_tags, device, is_loading,
                            pending_analysis_path, active_model_id, model_path,
                            tags_path, available_model_ids, released >>]_vars
    /\ [](~raw_results.is_none =>
            \E i \in Emitted("analysis_finished", raw_task) :
               \A j \in 1..Len(emitted) :
                  emitted[j].sig = "analysis_finished" => j <= i)

\* After one analysis the threshold was raised and the cached result is
\* shown filtered at the new threshold; no second request or task exists.
C17_Witness ==
    /\ logits = <<2, -2, 0>>
    /\ current_threshold = 950
    /\ config_threshold = 950
    /\ raw_results.items = << <<"red", 881>>, <<"green", 500>>, <<"blue", 119>> >>
    /\ raw_task = 1
    /\ displayed = << >>
    /\ n_requests = 1
    /\ n_tasks = 1
    /\ analysis_pool = {}
    /\ Len(emitted) = 2

\* --------------------------------------------------- JTP-3 preprocessing
\* preprocess_jtp3's defaults: patch_size = 16, max_seqlen = 1024.
DefaultPatchSize == 16
DefaultMaxSeqlen == 1024

\* get_image_size_for_seq's default eps = 1e-5 is 1 / EpsInverse, and its
\* max_ratio is 1.
EpsInverse == 100000

\* The search halves the interval [eps, 1] until it is narrower than eps, so
\* every ratio it visits is eps + m * (1 - eps) / SearchGrid for a whole m in
\* 0..SearchGrid, SearchGrid being the least power of two above 1/eps - 1.
\* A ratio is held as that m: the arithmetic below is exact.
SearchGrid == 131072

CeilDiv(a, b) == (a + b - 1) \div b
Min(a, b) == IF a < b THEN a ELSE b
Max(a, b) == IF a > b THEN a ELSE b

\* int(ceil((x * ratio) / patch_size)) for the ratio held as m.  With
\* A = x * m and B = x * (SearchGrid - m), x * ratio / patch_size is
\* (EpsInverse * A + B) / (EpsInverse * patch_size * SearchGrid); at m = 0
\* the ratio is eps and this is x / (patch_size * EpsInverse).
ScaledPatches(x, m, patch_size) ==
    IF m = 0
    THEN CeilDiv(x, patch_size * EpsInverse)
    ELSE LET A == x * m
             B == x * (SearchGrid - m)
             T == A + (B \div EpsInverse)
         IN  IF B % EpsInverse = 0
             THEN CeilDiv(T, patch_size * SearchGrid)
             ELSE (T \div (patch_size * SearchGrid)) + 1

\* max_py and max_px of get_image_size_for_seq.
MaxPatches(x, patch_size) == Max(x \div patch_size, 1)

\* The closure patchify(ratio) of get_image_size_for_seq.
patchify(h, w, m, patch_size) ==
    << Min(ScaledPatches(h, m, patch_size), MaxPatches(h, patch_size)),
       Min(ScaledPatches(w, m, patch_size), MaxPatches(w, patch_size)) >>

\* (max_ratio - ratio) >= eps for the interval lo..hi:
\* (hi - lo) * (1 - eps) / SearchGrid >= eps.
WideEnough(lo, hi) == (hi - lo) >= CeilDiv(SearchGrid, EpsInverse - 1)

\* The variables of the while loop of get_image_size_for_seq: ratio is lo,
\* max_ratio is hi, (py, px) the grid of the last ratio that fitted.
SearchStates ==
    [lo : 0..SearchGrid, hi : 0..SearchGrid, py : Nat, px : Nat]

\* The while loop with py and px assigned before seq_len is compared with
\* max_seq_len.
BinarySearch_assigning_before_check(h, w, patch_size, max_seq_len, s0) ==
    LET loop[s \in SearchStates] ==
            IF ~WideEnough(s.lo, s.hi)
            THEN <<s.py, s.px>>
            ELSE LET mid == (s.lo + s.hi) \div 2
                     grid == patchify(h, w, mid, patch_size)
                     seq_len == grid[1] * grid[2]
                 IN  IF seq_len > max_seq_len
                     THEN loop[[lo |-> s.lo, hi |-> mid,
                                py |-> grid[1], px |-> grid[2]]]
                     ELSE IF seq_len = max_seq_len
                     THEN grid
                     ELSE loop[[lo |-> mid, hi |-> s.hi,
                                py |-> grid[1], px |-> grid[2]]]
    IN  loop[s0]

\* The while loop of get_image_size_for_seq from the state s on: the
\* (py, px) it ends with.
BinarySearch(h, w, patch_size, max_seq_len, s0) ==
    LET loop[s \in SearchStates] ==
            IF ~WideEnough(s.lo, s.hi)
            THEN <<s.py, s.px>>
            ELSE LET mid == (s.lo + s.hi) \div 2
                     grid == patchify(h, w, mid, patch_size)
                     seq_len == grid[1] * grid[2]
                 IN  IF seq_len > max_seq_len
                     THEN loop[[s EXCEPT !.hi = mid]]
                     ELSE IF seq_len = max_seq_len
                     THEN grid
                     ELSE loop[[lo |-> mid, hi |-> s.hi,
                                py |-> grid[1], px |-> grid[2]]]
    IN  loop[s0]

\* f"Image of size {w}x{h} is too large."
TooLargeMessage(h, w) == <<"Image of size ", w, "x", h, " is too large.">>

\* get_image_size_for_seq(image_hw, patch_size, max_seq_len) with the
\* default max_ratio and eps: the size it returns or the exception it
\* raises.
get_image_size_for_seq(image_hw, patch_size, max_seq_len) ==
    LET h == image_hw[1]
        w == image_hw[2]
        max_py == MaxPatches(h, patch_size)
        max_px == MaxPatches(w, patch_size)
        at_eps == patchify(h, w, 0, patch_size)
    IN  IF max_py * max_px <= max_seq_len
        THEN [raised |-> NoException,
              size |-> <<max_py * patch_size, max_px * patch_size>>]
        ELSE IF at_eps[1] * at_eps[2] > max_seq_len
        THEN [raised |-> Exception("ValueError", TooLargeMessage(h, w)),
              size |-> << >>]
        ELSE LET grid == BinarySearch(h, w, patch_size, max_seq_len,
                                      [lo |-> 0, hi |-> SearchGrid,
                                       py |-> at_eps[1], px |-> at_eps[2]])
             IN  [raised |-> NoException,
                  size |-> <<grid[1] * patch_size, grid[2] * patch_size>>]

\* A PIL image: its mode and its size as (width, height).
PilImage(mode, size) == [mode |-> mode, size |-> size]

\* The closure compute_resize of preprocess_jtp3: PIL sizes are
\* (width, height), get_image_size_for_seq takes and returns (height, width).
compute_resize(wh, patch_size, max_seqlen) ==
    LET r == get_image_size_for_seq(<<wh[2], wh[1]>>, patch_size, max_seqlen)
    IN  IF r.raised # NoException
        THEN r
        ELSE [r EXCEPT !.size = <<r.size[2], r.size[1]>>]

\* process_srgb(img, resize = compute_resize): the image converted to RGB
\* and resized to the size compute_resize gives.
process_srgb(img, patch_size, max_seqlen) ==
    LET r == compute_resize(img.size, patch_size, max_seqlen)
    IN  IF r.raised # NoException
        THEN [raised |-> r.raised, img |-> img]
        ELSE [raised |-> NoException, img |-> PilImage("RGB", r.size)]

\* The bytes of the block of the image at patch row y and patch column x;
\* a zeroed slot of the patch buffer holds the bytes of no block.
Block(y, x) == [y |-> y, x |-> x]
ZeroBytes == [y |-> -1, x |-> -1]

\* The buffers preprocess_jtp3 allocates with torch.zeros.
Slots(max_seqlen) == 0..(max_seqlen - 1)
ZeroBuffers(max_seqlen) ==
    [ patches |-> [i \in Slots(max_seqlen) |-> ZeroBytes],
      patch_coords |-> [i \in Slots(max_seqlen) |-> <<0, 0>>],
      patch_valid |-> [i \in Slots(max_seqlen) |-> FALSE] ]

\* put_srgb_patch that flattens the grid of patches column by column.
put_srgb_patch_column_major(img, buffers, patch_size) ==
    The({ [ raised |-> NoException,
            patches |-> [i \in DOMAIN b.patches |->
                            IF i < rows * cols THEN Block(i % rows, i \div rows)
                            ELSE b.patches[i]],
            patch_coords |-> [i \in DOMAIN b.patch_coords |->
                            IF i < rows * cols THEN <<i % rows, i \div rows>>
                            ELSE b.patch_coords[i]],
            patch_valid |-> [i \in DOMAIN b.patch_valid |->
                            (i < rows * cols) \/ b.patch_valid[i]] ]
          : rows \in {img.size[2] \div patch_size},
            cols \in {img.size[1] \div patch_size},
            b \in {buffers} })

\* put_srgb_patch(img, patch_data, patch_coord, patch_valid, patch_size):
\* the image cut into rows * cols blocks of patch_size pixels, the blocks
\* and their meshgrid coordinates ("ij" indexing) flattened row by row
\* into the first n = rows * cols slots.
\* rearrange raises for sides that are not multiples of patch_size, and
\* np.copyto raises for n blocks copied into a buffer of fewer than n slots.
put_srgb_patch(img, buffers, patch_size) ==
    IF img.mode \notin {"RGB", "RGBA", "RGBa"}
    THEN [ raised |-> Exception("ValueError",
                                <<"Image has non-RGB mode ", img.mode, ".">>),
           patches |-> buffers.patches,
           patch_coords |-> buffers.patch_coords,
           patch_valid |-> buffers.patch_valid ]
    ELSE IF img.size[1] % patch_size # 0 \/ img.size[2] % patch_size # 0
    THEN [ raised |-> Exception("EinopsError", <<"Shape mismatch">>),
           patches |-> buffers.patches,
           patch_coords |-> buffers.patch_coords,
           patch_valid |-> buffers.patch_valid ]
    ELSE IF (img.size[2] \div patch_size) * (img.size[1] \div patch_size)
               > Cardinality(DOMAIN buffers.patches)
    THEN [ raised |-> Exception("ValueError",
                                <<"could not broadcast input array">>),
           patches |-> buffers.patches,
           patch_coords |-> buffers.patch_coords,
           patch_valid |-> buffers.patch_valid ]
    ELSE The({ [ raised |-> NoException,
                 patches |-> [i \in DOMAIN b.patches |->
                                 IF i < rows * cols
                                 THEN Block(i \div cols, i % cols)
                                 ELSE b.patches[i]],
                 patch_coords |-> [i \in DOMAIN b.patch_coords |->
                                 IF i < rows * cols
                                 THEN <<i \div cols, i % cols>>
                                 ELSE b.patch_coords[i]],
                 patch_valid |-> [i \in DOMAIN b.patch_valid |->
                                 (i < rows * cols) \/ b.patch_valid[i]] ]
               : rows \in {img.size[2] \div patch_size},
                 cols \in {img.size[1] \div patch_size},
                 b \in {buffers} })

\* What preprocess_jtp3 returns when it raises.
Raised(exception) ==
    [ raised |-> exception, size |-> << >>, patches |-> << >>,
      patch_coords |-> << >>, patch_valid |-> << >> ]

\* preprocess_jtp3(image_path, patch_size, max_seqlen) on a file whose image
\* is hw[1] pixels high and hw[2] wide: the three buffers, or the exception
\* that leaves it.
preprocess_jtp3(image_path, hw, patch_size, max_seqlen) ==
    IF OpenImage(image_path) # "ok"
    THEN Raised(Exception(OpenImage(image_path), <<OpenImage(image_path)>>))
    ELSE The({ IF processed.raised # NoException
               THEN Raised(processed.raised)
               ELSE The({ IF put.raised # NoException
                          THEN Raised(put.raised)
                          ELSE [ raised |-> NoException,
                                 size |-> processed.img.size,
                                 patches |-> put.patches,
                                 patch_coords |-> put.patch_coords,
                                 patch_valid |-> put.patch_valid ]
                          : put \in {put_srgb_patch(processed.img,
                                                    ZeroBuffers(max_seqlen),
                                                    patch_size)} })
               : processed \in {process_srgb(PilImage("RGB", <<hw[2], hw[1]>>),
                                             patch_size, max_seqlen)} })

\* The except clauses of request_analysis with every exception reported by
\* one fixed message.
ExceptClauses_generic(w, e, image_path, req) ==
    Emit(w, "error_occurred",
         Msg("ERROR during preprocessing or dispatch.", << >>), req, 0, NoResults)

\* The except clauses of request_analysis, on the exception e that left
\* its try block.
ExceptClauses(w, e, image_path, req) ==
    IF e.type = "FileNotFoundError"
    THEN Emit(w, "error_occurred", Msg("Image file not found at ", <<image_path>>),
              req, 0, NoResults)
    ELSE Emit(w, "error_occurred",
              Msg("ERROR during preprocessing or dispatch: ", e.message),
              req, 0, NoResults)

\* The try block of request_analysis of a manager whose preprocessing is
\* preprocess_jtp3: an exception goes to the except clauses, buffers go to
\* a new worker.
Dispatch_jtp3(w, image_path, hw, req) ==
    LET r == preprocess_jtp3(image_path, hw, DefaultPatchSize, DefaultMaxSeqlen)
    IN  IF r.raised # NoException
        THEN ExceptClauses(w, r.raised, image_path, req)
        ELSE Dispatch(w, image_path, req)

\* request_analysis of that manager.
request_analysis_jtp3(w, image_path, hw, req) ==
    LET e == _ensure_loaded(w)
    IN  IF ~e.ready
        THEN IF e.w.is_loading
             THEN [e.w EXCEPT !.pending_analysis_path = image_path,
                              !.pending_req = req]
             ELSE Emit(e.w, "error_occurred",
                       Msg("Model failed to load previously.", ""), req, 0,
                       NoResults)
        ELSE LET w1 == [e.w EXCEPT !.pending_analysis_path = None,
                                   !.pending_req = 0]
             IN  IF w1.device = None
                 THEN Emit(w1, "error_occurred",
                           Msg("Cannot analyze, device not set after model load.",
                               ""),
                           req, 0, NoResults)
                 ELSE Dispatch_jtp3(w1, image_path, hw, req)

\* ---------------------------------------------- JTP-3 preprocessing runs
\* Number of images preprocessed in one run.
MaxPreprocessed == 1

\* The image files of these runs: smaller than a patch, one patch, within
\* the budget of patches, far above it, with sides whose grids grow at
\* nearly the same ratio (1729 x 1675, 1921 x 1983), and strips so long
\* that they are above the budget at the smallest ratio.
Heights == {5, 16, 40, 512, 600, 1600, 1729, 1921, 3000}
Widths == {5, 16, 40, 512, 800, 1600, 1675, 1983, 4000}
Strips ==
    { <<1638400001, 16>>, <<2000000000, 16>>, <<16, 1638400001>>,
      <<1638400001, 31>> }
ImageSizes == (Heights \X Widths) \cup Strips

Jtp3Paths == {CurrentImagePath, "missing.png", "corrupt.png"}

\* The manager of OneModelDir once its model is loaded: constructed, the
\* load started by _ensure_loaded, the worker's model_loaded handled.
ReadyManager ==
    LET e == _ensure_loaded(Construct(OneModelDir, None))
        t == CHOOSE t \in e.w.load_pool : TRUE
    IN  _handle_model_loaded([e.w EXCEPT !.load_pool = {}],
                             LoadModelWorker_run(t, "loaded"))

ManagerIs(w) ==
    /\ available_model_ids = w.available_model_ids
    /\ active_model_id = w.active_model_id
    /\ model_path = w.model_path
    /\ tags_path = w.tags_path
    /\ model = w.model
    /\ allowed_tags = w.allowed_tags
    /\ device = w.device
    /\ is_loading = w.is_loading
    /\ pending_analysis_path = w.pending_analysis_path
    /\ load_pool = w.load_pool
    /\ analysis_pool = w.analysis_pool
    /\ event_queue = w.event_queue
    /\ emitted = w.emitted
    /\ n_loads = w.n_loads
    /\ n_tasks = w.n_tasks
    /\ pending_req = w.pending_req
    /\ failed = w.failed

\* The caller asks for the analysis of the image file at image_path:
\* request_analysis_jtp3, and the buffers preprocess_jtp3 returned in it.
RequestJtp3Analysis ==
    /\ n_requests < MaxPreprocessed
    /\ \E image_path \in Jtp3Paths :
          \E r \in {preprocess_jtp3(image_path, file_hw, DefaultPatchSize,
                                    DefaultMaxSeqlen)} :
          \E w \in {request_analysis_jtp3(World, image_path, file_hw,
                                          n_requests + 1)} :
          LET e == _ensure_loaded(World)
          IN  /\ CommitManager(w)
              /\ \E p \in {PanelAfter(Panel, w)} : SetPanel(p)
              /\ requested' = Append(requested, image_path)
              /\ IF e.ready /\ e.w.device # None /\ r.raised = NoException
                 THEN /\ processed_size' = r.size
                      /\ patches' = r.patches
                      /\ patch_coords' = r.patch_coords
                      /\ patch_valid' = r.patch_valid
                 ELSE UNCHANGED <<processed_size, patches, patch_coords,
                                  patch_valid>>
    /\ n_requests' = n_requests + 1
    /\ UNCHANGED <<fs, cuda_is_available, file_hw, overwritten, n_switches,
                   last_selected>>

Jtp3Init ==
    /\ fs = OneModelDir
    /\ cuda_is_available = FALSE
    /\ ManagerIs(ReadyManager)
    /\ n_requests = 0
    /\ requested = << >>
    /\ overwritten = {}
    /\ last_selected = None
    /\ n_switches = 0
    /\ released = {}
    /\ PanelStarted(DefaultThreshold)
    /\ logits = <<2, -2, 0>>
    /\ \E hw \in ImageSizes : NoBuffers(hw)
    /\ PilotFolder
    /\ NoHydraPool
    /\ NothingFitted
    /\ NotSearching

Jtp3Next ==
    \/ RequestJtp3Analysis
    \/ RunAnalysisWorker
    \/ DeliverWorkerResult
    \/ DeliverWorkerError

Jtp3Spec == Jtp3Init /\ [][Jtp3Next]_vars

\* The image of the run was preprocessed without an exception.
Preprocessed == processed_size # << >>

\* The signals the manager emitted for its k-th request.
SignalsOf(sig, k) ==
    {i \in 1..Len(emitted) : emitted[i].sig = sig /\ emitted[i].req = k}

\* ------------------------------------------------------------------ C18
\* The grids patchify gives at the ratios up to 1 of an image h high and w
\* wide: one for each ratio at which the number of rows or of columns
\* grows, each side capped as patchify caps it.
GridsUpToOne(h, w, patch_size) ==
    LET max_py == MaxPatches(h, patch_size)
        max_px == MaxPatches(w, patch_size)
    IN  { <<k, Min(CeilDiv(w * k, h), max_px)>> : k \in 1..max_py }
        \cup { <<Min(CeilDiv(h * j, w), max_py), j>> : j \in 1..max_px }

\* No ratio up to 1 gives a grid within max_seq_len patches that has more
\* rows or more columns than the grid py x px.
MaximalGrid(h, w, py, px, patch_size, max_seq_len) ==
    \A g \in GridsUpToOne(h, w, patch_size) :
        g[1] * g[2] <= max_seq_len => g[1] <= py /\ g[2] <= px

\* C18: for patch size 16 and at most 1024 patches, the size selected for
\* an image is a positive multiple of the patch size on both sides, its
\* grid has at most 1024 patches and is the largest one that a ratio up to
\* 1 gives within 1024 patches; a 1600 x 1600 image gets such a grid and a
\* 16 x 16 image keeps its size.
C18_MaximalGridWithinBudget ==
    Preprocessed =>
        LET H == processed_size[2]
            W == processed_size[1]
        IN  /\ H > 0 /\ H % DefaultPatchSize = 0
            /\ W > 0 /\ W % DefaultPatchSize = 0
            /\ (H \div DefaultPatchSize) * (W \div DefaultPatchSize)
                  <= DefaultMaxSeqlen
            /\ MaximalGrid(file_hw[1], file_hw[2], H \div DefaultPatchSize,
                           W \div DefaultPatchSize, DefaultPatchSize,
                           DefaultMaxSeqlen)
            /\ file_hw = <<16, 16>> => processed_size = <<16, 16>>

\* ------------------------------------------------------------------ C19
\* The grid of an image at the smallest ratio, eps, has more patches than
\* the budget.
TooLargeAtMinimalScale(hw) ==
    LET grid == patchify(hw[1], hw[2], 0, DefaultPatchSize)
    IN  grid[1] * grid[2] > DefaultMaxSeqlen

\* The message the caller receives for an image that is too large.
TooLargeError(hw) ==
    Msg("ERROR during preprocessing or dispatch: ",
        TooLargeMessage(hw[1], hw[2]))

C20_RowMajorPrefix ==
    Preprocessed =>
        LET rows == processed_size[2] \div DefaultPatchSize
            cols == processed_size[1] \div DefaultPatchSize
            n == rows * cols
            valid == {i \in DOMAIN patch_valid : patch_valid[i]}
        IN  /\ DOMAIN patch_valid = Slots(DefaultMaxSeqlen)
            /\ DOMAIN patch_coords = Slots(DefaultMaxSeqlen)
            /\ Cardinality(valid) = n
            /\ valid = 0..(n - 1)
            /\ \A i \in valid :
                  /\ patch_coords[i] = <<i \div cols, i % cols>>
                  /\ patches[i] = Block(i \div cols, i % cols)
            /\ Cardinality({patch_coords[i] : i \in valid}) = n
            /\ \A i \in Slots(DefaultMaxSeqlen) \ valid :
                  /\ ~patch_valid[i]
                  /\ patch_coords[i] = <<0, 0>>
                  /\ patches[i] = ZeroBytes

\* An image whose grid has several rows, more columns than rows, and
\* fewer patches than the buffers have slots.
C20_Witness ==
    /\ Preprocessed
    /\ LET rows == processed_size[2] \div DefaultPatchSize
           cols == processed_size[1] \div DefaultPatchSize
       IN  /\ rows > 1
           /\ cols > rows
           /\ rows * cols < DefaultMaxSeqlen
           /\ patch_valid[rows * cols - 1]
           /\ ~patch_valid[rows * cols]

\* ================================================================= JTP-2
\* The loaders of a JTP-2 model and the inference that follows them: the
\* functions of inference/jtp2_inference.py, and the workers of
\* classifier_manager.py.

\* The unit of a tensor value: one millionth.
Millionth == 1000000

\* The files tags.json can be: a mapping from the tag names to 0..n-1,
\* its keys in any order.
TagFiles ==
    LET three == {<<"red", 0>>, <<"blue", 1>>, <<"green", 2>>}
        two == {<<"red", 0>>, <<"blue", 1>>}
    IN  {s \in three \X three \X three : \A i, j \in 1..3 : i # j => s[i] # s[j]}
        \cup {s \in two \X two : s[1] # s[2]}

\* The weights files: the head they were saved from, with three classes.
StateDicts == {Model(head, 3) : head \in {"plain", "gated"}}

\* list(tags_data.keys()): the keys in the order of the file.
Keys(items) == [i \in 1..Len(items) |-> items[i][1]]

\* Where sorted(..., key=lambda x: x[1]) puts one more item: behind every
\* item whose index is not larger.
InsertByIndex(sorted, item) ==
    LET k == Cardinality({i \in 1..Len(sorted) : sorted[i][2] <= item[2]})
    IN  SubSeq(sorted, 1, k) \o <<item>> \o SubSeq(sorted, k + 1, Len(sorted))

\* sorted(allowed_tags_dict.items(), key=lambda x: x[1])
RECURSIVE SortedByIndex(_, _)
SortedByIndex(items, n) ==
    IF n = 0 THEN << >>
    ELSE InsertByIndex(SortedByIndex(items, n - 1), items[n])

\* timm.create_model("vit_so400m_patch14_siglip_384.webli",
\* num_classes=...): a ViT whose head is one linear layer.
create_model(num_classes) == Model("plain", num_classes)

\* model.head = GatedHead(num_features, num_classes)
GatedHead(mdl, num_classes) == Model("gated", num_classes)

\* model.load_state_dict(state_dict): strict, so it raises unless the
\* file holds exactly the tensors of the model, in their shapes.
load_state_dict(mdl, weights) ==
    IF weights = mdl THEN NoException
    ELSE Exception("RuntimeError", <<"Error(s) in loading state_dict">>)

\* load_jtp2_model(model_path, tags_path, device, model_id)
load_jtp2_model(items, weights, id) ==
    LET sorted == SortedByIndex(items, Len(items))
        tags == [i \in 1..Len(sorted) |-> sorted[i][1]]
        vit == create_model(Len(tags))
        mdl == IF id = "JTP_PILOT2" THEN GatedHead(vit, Len(tags)) ELSE vit
        e == load_state_dict(mdl, weights)
    IN  IF e # NoException THEN RaisedInLoad(e) ELSE Returned(mdl, tags)

\* The try block of LoadModelWorker.run: the model and the tag list it
\* emits with model_loaded, or the exception its except clauses turn
\* into loading_error.
LoadModelWorker_run_try(items, weights) ==
    LET tags == Keys(items)
        mdl == create_model(Len(tags))
        e == load_state_dict(mdl, weights)
    IN  IF e # NoException THEN RaisedInLoad(e) ELSE Returned(mdl, tags)

\* torch.nn.functional.sigmoid of a tensor value, both in millionths:
\* the table at whole numbers, and between two of them the straight line
\* through the table's values.
torch_sigmoid(v) ==
    LET whole == v \div Millionth
        part == v % Millionth
    IN  IF part = 0 THEN Sigmoid(whole) * 1000
        ELSE Sigmoid(whole) * 1000
             + ((Sigmoid(whole + 1) - Sigmoid(whole)) * part) \div 1000

\* GatedHead.forward on x = self.linear(features)
GatedHead_forward(x, num_classes) ==
    [i \in 1..num_classes |-> Sigmoid(x[i]) * Sigmoid(x[num_classes + i])]

\* model(tensor)[0]: the head applied to its linear projection x.  The
\* plain head is the linear layer itself.
Forward(mdl, x) ==
    IF mdl.head = "gated" THEN GatedHead_forward(x, mdl.num_classes)
    ELSE [i \in 1..mdl.num_classes |-> x[i] * Millionth]

\* run_inference_jtp2(model, tensor, device, model_id)
run_inference_jtp2(mdl, x, id) ==
    LET output == Forward(mdl, x)
    IN  IF id = "JTP_PILOT2" THEN output
        ELSE [i \in 1..Len(output) |-> torch_sigmoid(output[i])]

\* AnalysisWorker.run, step 1: sigmoid of the model's output.
AnalysisWorker_probabilities(mdl, x) ==
    LET output == Forward(mdl, x)
    IN  [i \in 1..Len(output) |-> torch_sigmoid(output[i])]

\* The values one element of a projection takes in the runs.
ProjectionValues == {-2, 0, 2}

\* The projections the head of a model can be given.
Projections(mdl) ==
    [1..(IF mdl.head = "gated" THEN 2 * mdl.num_classes ELSE mdl.num_classes)
       -> ProjectionValues]

\* The state of the manager, the panel and JTP-3 preprocessing.
app_vars == << fs, cuda_is_available, available_model_ids, active_model_id,
               model_path, tags_path, model, allowed_tags, device, is_loading,
               pending_analysis_path, load_pool, analysis_pool, event_queue,
               emitted, n_requests, requested, overwritten, last_selected,
               n_switches, n_loads, n_tasks, pending_req, failed, released,
               logits, raw_results, raw_task, current_threshold,
               config_threshold, displayed, file_hw, processed_size, patches,
               patch_coords, patch_valid >>

\* A loader has run on a model folder.
LoadedBy(name, id, items, weights, result) ==
    /\ folder_id' = id
    /\ tags_data' = items
    /\ state_dict' = weights
    /\ loader' = name
    /\ loaded' = result
    /\ head_input' = << >>
    /\ returned_probabilities' = << >>
    /\ UNCHANGED app_vars
    /\ UNCHANGED hydra_vars
    /\ UNCHANGED fit_vars
    /\ UNCHANGED search_vars

\* load_jtp2_model is called on a model folder.
LoadJtp2Model ==
    \E id \in SUPPORTED_MODELS, items \in TagFiles, weights \in StateDicts :
       LoadedBy("load_jtp2_model", id, items, weights,
                load_jtp2_model(items, weights, id))

\* The manager's load task runs on a model folder.
RunLoadModelWorkerOn ==
    \E id \in SUPPORTED_MODELS, items \in TagFiles, weights \in StateDicts :
       LoadedBy("LoadModelWorker", id, items, weights,
                LoadModelWorker_run_try(items, weights))

\* Inference has run on the loaded model.
Inferred(x, result) ==
    /\ head_input' = x
    /\ returned_probabilities' = result
    /\ UNCHANGED <<folder_id, tags_data, state_dict, loader, loaded>>
    /\ UNCHANGED app_vars
    /\ UNCHANGED hydra_vars
    /\ UNCHANGED fit_vars
    /\ UNCHANGED search_vars

\* run_inference_jtp2 is called with the model load_jtp2_model returned.
RunInferenceJtp2 ==
    /\ loader = "load_jtp2_model"
    /\ loaded.raised = NoException
    /\ \E x \in Projections(loaded.model) :
          Inferred(x, run_inference_jtp2(loaded.model, x, folder_id))

\* The manager's inference task runs with the model its load task emitted.
RunAnalysisWorkerOn ==
    /\ loader = "LoadModelWorker"
    /\ loaded.raised = NoException
    /\ \E x \in Projections(loaded.model) :
          Inferred(x, AnalysisWorker_probabilities(loaded.model, x))

Jtp2Init ==
    /\ fs = OneModelDir
    /\ cuda_is_available = FALSE
    /\ ManagerIs(ReadyManager)
    /\ n_requests = 0
    /\ requested = << >>
    /\ overwritten = {}
    /\ last_selected = None
    /\ n_switches = 0
    /\ released = {}
    /\ PanelStarted(DefaultThreshold)
    /\ logits = <<2, -2, 0>>
    /\ NoBuffers(<<16, 16>>)
    /\ PilotFolder
    /\ NoHydraPool
    /\ NothingFitted
    /\ NotSearching

Jtp2Next ==
    \/ LoadJtp2Model
    \/ RunLoadModelWorkerOn
    \/ RunInferenceJtp2
    \/ RunAnalysisWorkerOn

Jtp2Spec == Jtp2Init /\ [][Jtp2Next]_vars

\* The head the model of a folder id has.
HeadOf(id) == IF id = "JTP_PILOT2" THEN "gated" ELSE "plain"

\* The probabilities of a projection, each squashed once by its head.
SquashedOnce(x, head, n) ==
    [i \in 1..n |-> IF head = "gated" THEN Sigmoid(x[i]) * Sigmoid(x[n + i])
                    ELSE Sigmoid(x[i]) * 1000]

\* What C21 says of the state a loader and an inference leave.
HeadSelectedById ==
    LET head == HeadOf(folder_id)
        n == Len(tags_data)
    IN  /\ state_dict = Model(head, n) => loaded.raised = NoException
        /\ loaded.raised = NoException => loaded.model = Model(head, n)
        /\ returned_probabilities # << >> /\ loaded.model = Model(head, n) =>
              /\ returned_probabilities = SquashedOnce(head_input, head, n)
              /\ \A i \in 1..n :
                    head = "gated" /\ head_input[i] = 0 =>
                       2 * returned_probabilities[i]
                          = Sigmoid(head_input[n + i]) * 1000

\* C21: whichever loader ran, the model of the gated id JTP_PILOT2 has
\* the gated head and its output sigmoid(activation) * sigmoid(gate) is
\* returned as it is (0.5 * sigmoid(gate) for a zero activation), and the
\* model of the plain id has the plain head and its logits get one sigmoid.
C21_HeadSelectedById == loader # None => HeadSelectedById

\* The same of the functions of inference/jtp2_inference.py alone.
Jtp2ModuleSelectsHeadById == loader = "load_jtp2_model" => HeadSelectedById

\* What C22 says of the tag list a loader returned.
TagAtItsIndex ==
    loaded.raised = NoException =>
       /\ \A k \in 1..Len(tags_data) :
             /\ tags_data[k][2] + 1 \in 1..Len(loaded.allowed_tags)
             /\ loaded.allowed_tags[tags_data[k][2] + 1] = tags_data[k][1]
       /\ Len(loaded.allowed_tags) = loaded.model.num_classes
       /\ returned_probabilities # << >> =>
             Len(returned_probabilities) = Len(loaded.allowed_tags)

\* C22: whichever loader ran and whatever the order of the keys in
\* tags.json, the tag list it returned has each tag at the position of its
\* mapped index, so that score i belongs to the tag mapped to i, and is as
\* long as the model's output.
C22_TagAtItsIndex == loader # None => TagAtItsIndex

\* The same of load_jtp2_model alone.
Jtp2ModuleTagAtItsIndex == loader = "load_jtp2_model" => TagAtItsIndex

\* No inference changes the tag list a loader returned.
VocabularyFixedAfterLoad ==
    [][loader' = loader /\ tags_data' = tags_data /\ state_dict' = state_dict
       /\ folder_id' = folder_id => loaded' = loaded]_vars

\* ============================================================ Hydra head
\* The queries of HydraPool: load_jtp3_model, _cache_query, _forward_q and
\* the forward pass.

\* head_dim of the runs: the length of one query vector.
HeadDim == 2
\* The forward passes of one run.
MaxForwardPasses == 2

\* A vector of head_dim elements: its direction, as whole numbers without
\* a common factor, and the sum of the squares of its elements.  The sum
\* is head_dim exactly when the root mean square is 1.
Vector(dir, sumsq) == [dir |-> dir, sumsq |-> sumsq]
Vectors == {Vector(dir, sumsq) : dir \in {<<1, 0>>, <<3, 4>>},
                                 sumsq \in {HeadDim, 25}}

\* self.qk_norm = RMSNorm(head_dim, eps=1e-5, elementwise_affine=False):
\* each vector keeps its direction and gets the root mean square 1.
qk_norm(t) == [i \in DOMAIN t |-> Vector(t[i].dir, HeadDim)]

\* The tensors q and cls of the runs: one head, two classes.
Queries == {<<first, second>> : first \in Vectors, second \in Vectors}

\* HydraPool.__init__ with roots = (0, 0, 0): q is a Parameter and
\* _q_normed is False; with roots = (0, n_classroots, 0): q is an empty
\* Buffer, cls a Parameter and _q_normed is None.
HydraPool(has_roots, q, cls) ==
    IF has_roots THEN HydraPoolOf(TRUE, q, cls, "None")
    ELSE HydraPoolOf(FALSE, q, << >>, "False")

\* HydraPool._forward_q: the queries, and how many times it normalized.
\* With n_roots = 0 and n_subclasses = 0, self.roots and self.clscls are
\* None and the queries of a pool with roots are qk_norm(self.cls).
_forward_q(pool) ==
    CASE pool.q_normed = "None" -> [q |-> qk_norm(pool.cls), norms |-> 1]
      [] pool.q_normed = "False" -> [q |-> qk_norm(pool.q), norms |-> 1]
      [] OTHER -> [q |-> pool.q, norms |-> 0]

\* HydraPool._cache_query: the pool it leaves, and how many times it
\* normalized.
_cache_query(pool) ==
    IF pool.q_normed = "True" THEN [pool |-> pool, norms |-> 0]
    ELSE LET fq == _forward_q(pool)
         IN  [pool |-> [pool EXCEPT !.q = fq.q, !.q_normed = "True"],
              norms |-> fq.norms]

\* HydraPool.for_state: a pool of the shapes of the file's tensors.  Its q
\* and cls are not yet the file's.
for_state(saved) == HydraPool(saved.has_roots, << >>, << >>)

\* model.load_state_dict(state_dict, strict=True) on attn_pool: the
\* tensors are copied from the file and set_extra_state takes q_normed.
load_state_dict_jtp3(pool, saved, extra_state) ==
    [pool EXCEPT !.q = saved.q, !.cls = saved.cls, !.q_normed = extra_state]

\* load_jtp3_model(model_path, device): the exception it raises, or the
\* attn_pool of the model it returns and how many times it normalized.
load_jtp3_model(ckpt) ==
    IF ckpt.arch_suffix # "+rr_hydra"
    THEN [raised |-> Exception("ValueError",
                               <<"Unsupported JTP-3 architecture suffix: ",
                                 ckpt.arch_suffix>>),
          pool |-> NoPool, norms |-> 0]
    ELSE LET made == for_state(ckpt.attn_pool)
             extra_state == "True"
             filled == load_state_dict_jtp3(made, ckpt.attn_pool, extra_state)
             cached == _cache_query(filled)
         IN  [raised |-> NoException, pool |-> cached.pool,
              norms |-> cached.norms]

\* The files a JTP-3 model can be loaded from: with or without roots, the
\* queries saved as trained or normalized, under any saved extra state.
Checkpoints ==
    {Checkpoint(suffix, HydraPoolOf(has_roots, q, IF has_roots THEN q ELSE << >>,
                                    q_normed)) :
        suffix \in {"+rr_hydra", "+rr_other"}, has_roots \in BOOLEAN,
        q \in Queries, q_normed \in {"False", "True"}}

\* A HydraPool was made or changed outside a forward pass.
PoolIs(ckpt, pool, from, norms) ==
    /\ checkpoint' = ckpt
    /\ attn_pool' = pool
    /\ pool_from' = from
    /\ n_qk_norm' = norms
    /\ n_forward' = 0
    /\ used_q' = << >>
    /\ UNCHANGED app_vars
    /\ UNCHANGED jtp2_vars
    /\ UNCHANGED fit_vars
    /\ UNCHANGED search_vars

\* load_jtp3_model is called on a file.
LoadJtp3Model ==
    \E ckpt \in Checkpoints :
       \E r \in {load_jtp3_model(ckpt)} :
          IF r.raised # NoException
          THEN PoolIs(ckpt, r.pool, None, 0)
          ELSE PoolIs(ckpt, r.pool, "load_jtp3_model", r.norms)

\* A HydraPool is constructed with trained queries and put in eval mode.
NewHydraPool ==
    \E has_roots \in BOOLEAN, q \in Queries :
       PoolIs(NoCheckpoint, HydraPool(has_roots, q, q), "HydraPool", 0)

\* _cache_query is called on the pool.
CacheQuery ==
    /\ pool_from # None
    /\ \E r \in {_cache_query(attn_pool)} :
          /\ attn_pool' = r.pool
          /\ n_qk_norm' = n_qk_norm + r.norms
    /\ UNCHANGED <<checkpoint, pool_from, n_forward, used_q>>
    /\ UNCHANGED app_vars
    /\ UNCHANGED jtp2_vars
    /\ UNCHANGED fit_vars
    /\ UNCHANGED search_vars

\* HydraPool.forward: _forward_attn attends with _forward_q().
ForwardPass ==
    /\ pool_from # None
    /\ n_forward < MaxForwardPasses
    /\ \E fq \in {_forward_q(attn_pool)} :
          /\ used_q' = fq.q
          /\ n_qk_norm' = n_qk_norm + fq.norms
    /\ n_forward' = n_forward + 1
    /\ UNCHANGED <<checkpoint, attn_pool, pool_from>>
    /\ UNCHANGED app_vars
    /\ UNCHANGED jtp2_vars
    /\ UNCHANGED fit_vars
    /\ UNCHANGED search_vars

HydraInit == Jtp2Init

HydraNext ==
    \/ LoadJtp3Model
    \/ NewHydraPool
    \/ CacheQuery
    \/ ForwardPass

HydraSpec == HydraInit /\ [][HydraNext]_vars

\* Every vector of a tensor has the root mean square 1.
Normalized(t) == \A i \in DOMAIN t : t[i].sumsq = HeadDim

\* C23: the HydraPool load_jtp3_model returned has the state 'normed' and
\* normalized queries, its queries were normalized exactly once, however
\* many forward passes it has made since, and every pass attended with the
\* cached queries.
C23_NormalizedOnceAtLoad ==
    pool_from = "load_jtp3_model" =>
       /\ attn_pool.q_normed = "True"
       /\ Normalized(attn_pool.q)
       /\ n_qk_norm = 1
       /\ n_forward > 0 => used_q = attn_pool.q

\* What holds of it: the state is 'normed', nothing normalizes after the
\* load, and every pass attends with the queries the pool holds.
LoadedPoolIsMarkedNormed ==
    pool_from = "load_jtp3_model" =>
       /\ attn_pool.q_normed = "True"
       /\ attn_pool.q = checkpoint.attn_pool.q
       /\ n_qk_norm = 0
       /\ n_forward > 0 => used_q = attn_pool.q

\* _cache_query is idempotent: on the pool it leaves it changes nothing
\* and does not normalize.
CacheQueryIsIdempotent ==
    pool_from # None =>
       LET once == _cache_query(attn_pool)
           twice == _cache_query(once.pool)
       IN  /\ twice.pool = once.pool
           /\ twice.norms = 0
           /\ Normalized(once.pool.q) \/ attn_pool.q_normed = "True"

\* ------------------------------------------------------------------ C24
\* C24: in Ready, a request_analysis call for an image that cannot be
\* opened or preprocessed emits exactly one error_occurred and no
\* analysis_started, dispatches no inference task and starts no load, and
\* leaves the model, the tag list, the device and is_loading as they were:
\* the manager is still Ready for the next call.
C24_FailedPreprocessLeavesReady ==
    [][(IsRequestStep /\ Ready /\ OpenImage(StepPath) # "ok") =>
            /\ RefusedWithError(n_requests')
            /\ emitted'[Len(emitted')].task = 0
            /\ SubSeq(emitted', 1, Len(emitted)) = emitted
            /\ event_queue' = event_queue
            /\ n_loads' = n_loads
            /\ load_pool' = load_pool
            /\ model' = model
            /\ allowed_tags' = allowed_tags
            /\ device' = device
            /\ is_loading' = is_loading
            /\ pending_analysis_path' = None
            /\ Ready']_vars

\* The second call was made in Ready, after the first one's task was
\* dispatched, for an image that cannot be read: it ended in an error and
\* the manager is Ready.
C24_Witness ==
    /\ Ready
    /\ n_requests = 2
    /\ n_loads = 1
    /\ OpenImage(requested[2]) # "ok"
    /\ \E i \in 1..Len(emitted) :
          emitted[i].sig = "analysis_started" /\ emitted[i].req = 1
    /\ emitted[Len(emitted)].sig = "error_occurred"
    /\ emitted[Len(emitted)].req = 2

\* ------------------------------------------------------------------ C25
\* C25: the manager relays the result of an inference task as soon as the
\* task's finished signal is handled, in the order in which the tasks
\* ended and whatever other tasks are still in flight, with the results
\* list as its only payload and without touching its own state: results
\* reach the listener in completion order, not in request order.
C25_ResultsInCompletionOrder ==
    [][IsDelivery("finished") =>
            LET s == Head(event_queue)
            IN  /\ emitted' = Append(emitted,
                                     Signal("analysis_finished", NoMsg, s.req,
                                            s.task, s.results))
                /\ s.results # NoResults
                /\ analysis_pool' = analysis_pool
                /\ load_pool' = load_pool
                /\ model' = model
                /\ allowed_tags' = allowed_tags
                /\ is_loading' = is_loading
                /\ pending_analysis_path' = pending_analysis_path]_vars

\* Two tasks were in flight and the result of the later request was
\* relayed before the result of the earlier one.
C25_Witness ==
    \E i, j \in 1..Len(emitted) :
       /\ i < j
       /\ emitted[i].sig = "analysis_finished"
       /\ emitted[j].sig = "analysis_finished"
       /\ emitted[i].req > emitted[j].req
       /\ emitted[i].task > emitted[j].task
       /\ \E k \in 1..(i - 1) :
             emitted[k].sig = "analysis_started" /\ emitted[k].task = emitted[i].task

\* ========================================================= JTP-2 transform
\* Fit.forward and the pipeline of get_jtp2_transform, on image sizes and
\* tensor shapes.

\* round(n / d) of Python for a float that holds n / d exactly enough:
\* to the nearest whole number, a tie to the even one.
Round(n, d) ==
    LET q == n \div d
        r == n % d
    IN  IF 2 * r < d THEN q
        ELSE IF 2 * r > d THEN q + 1
        ELSE IF q % 2 = 0 THEN q ELSE q + 1

\* min of two scales, each a pair (numerator, denominator).
MinScale(a, b) == IF a[1] * b[2] <= b[1] * a[2] THEN a ELSE b

\* TF.resize(img, (hnew, wnew), interpolation): PIL refuses a size with a
\* side below 1 ("height and width must be > 0").
TF_resize(hnew, wnew) ==
    IF hnew < 1 \/ wnew < 1
    THEN FitResult(Exception("ValueError", <<"height and width must be > 0">>),
                   << >>)
    ELSE FitResult(NoException, <<wnew, hnew>>)

\* Fit.forward(img) with pad = None.  The scales are held as the
\* fractions the code divides out.
Fit_forward(size, bounds, grow) ==
    LET wimg == size[1]
        himg == size[2]
        hbound == bounds[1]
        wbound == bounds[2]
        hscale == IF grow THEN <<hbound, himg>>
                  ELSE MinScale(<<hbound, himg>>, <<1, 1>>)
        wscale == IF grow THEN <<wbound, wimg>>
                  ELSE MinScale(<<wbound, wimg>>, <<1, 1>>)
        scale == MinScale(hscale, wscale)
    IN  IF scale[1] = scale[2] THEN FitResult(NoException, size)
        ELSE TF_resize(Min(Round(himg * scale[1], scale[2]), hbound),
                       Min(Round(wimg * scale[1], scale[2]), wbound))

\* Fit((384, 384)) of get_jtp2_transform: (hbound, wbound), grow = True.
Jtp2Bounds == <<384, 384>>

\* transforms.ToTensor() on an RGBA image: channels x height x width.
ToTensor(size) == <<4, size[2], size[1]>>

\* CompositeAlpha(0.5): three channels are left.
CompositeAlpha(shape) == IF shape[1] = 3 THEN shape ELSE <<3, shape[2], shape[3]>>

\* transforms.CenterCrop(crop): a side shorter than the crop is padded
\* to it, then the rows top..bottom-1 and the columns left..right-1 of
\* the middle are cut out.
CenterCrop(shape, crop) ==
    LET padded == <<shape[1], Max(shape[2], crop[1]), Max(shape[3], crop[2])>>
        top == (padded[2] - crop[1]) \div 2
        left == (padded[3] - crop[2]) \div 2
        bottom == Min(top + crop[1], padded[2])
        right == Min(left + crop[2], padded[3])
    IN  <<padded[1], bottom - top, right - left>>

\* get_jtp2_transform() applied to an RGBA image: Fit, ToTensor,
\* CompositeAlpha, Normalize (which keeps the shape), CenterCrop.
jtp2_transform(size) ==
    LET fit == Fit_forward(size, Jtp2Bounds, TRUE)
    IN  IF fit.raised # NoException THEN [fit |-> fit, shape |-> << >>]
        ELSE [fit |-> fit,
              shape |-> CenterCrop(CompositeAlpha(ToTensor(fit.size)), Jtp2Bounds)]

\* The side lengths of the images of the runs.
Sides == {1, 2, 100, 383, 384, 385, 768, 1000}
Jtp2Sizes == Sides \X Sides

\* Fit.forward or preprocess_jtp2 has run on an image.
FitIs(called, size, grow, fit, shape) ==
    /\ fit_called' = called
    /\ fit_input' = size
    /\ fit_grow' = grow
    /\ fitted' = fit
    /\ tensor_shape' = shape
    /\ UNCHANGED app_vars
    /\ UNCHANGED jtp2_vars
    /\ UNCHANGED hydra_vars
    /\ UNCHANGED search_vars

\* Fit(bounds, grow=...).forward is called on an image.
FitForward ==
    \E size \in Jtp2Sizes, grow \in BOOLEAN :
       FitIs("Fit.forward", size, grow, Fit_forward(size, Jtp2Bounds, grow),
             << >>)

\* preprocess_jtp2 is called on an image file.
PreprocessJtp2 ==
    \E size \in Jtp2Sizes :
       \E r \in {jtp2_transform(size)} :
          FitIs("preprocess_jtp2", size, TRUE, r.fit, r.shape)

FitInit == Jtp2Init

FitNext ==
    \/ FitForward
    \/ PreprocessJtp2

FitSpec == FitInit /\ [][FitNext]_vars

\* What Fit.forward returned is within the bounds, and within the image
\* when grow is not set.
FittedWithinBounds ==
    /\ fitted.size[1] <= Jtp2Bounds[2]
    /\ fitted.size[2] <= Jtp2Bounds[1]
    /\ ~fit_grow => fitted.size[1] <= fit_input[1] /\ fitted.size[2] <= fit_input[2]

\* C26: for every image size, Fit.forward returns a size within the
\* 384 x 384 bounds, and within the image's own size when grow is not set,
\* and the tensor of preprocess_jtp2 has the shape 3 x 384 x 384.
C26_FitsAndCropsEverySize ==
    fit_called # None =>
       /\ fitted.raised = NoException
       /\ FittedWithinBounds
       /\ fit_called = "preprocess_jtp2" => tensor_shape = <<3, 384, 384>>

\* What holds for every image size: whenever Fit.forward returns, and it
\* returns for every image less than 768 times as long as it is wide or
\* the other way round, the above holds.
FitsAndCropsWhenResized ==
    fit_called # None =>
       /\ fitted.raised = NoException =>
             /\ FittedWithinBounds
             /\ fitted.size[1] >= 1 /\ fitted.size[2] >= 1
             /\ fit_called = "preprocess_jtp2" => tensor_shape = <<3, 384, 384>>
       /\ fit_input[1] < 768 * fit_input[2] /\ fit_input[2] < 768 * fit_input[1]
             => fitted.raised = NoException

\* ------------------------------------------------------------------ C27
\* C27: between handlers, a pending analysis path is stored only while a
\* load is in progress: when is_loading is not set (Unloaded, Ready or
\* Failed) pending_analysis_path is None.
C27_PendingOnlyWhileLoading ==
    ~is_loading => pending_analysis_path = None

\* Two calls were made during a load that then failed: the manager is
\* Failed, not loading, and the path the second call stored is gone.
C27_Witness ==
    /\ Failed
    /\ ~is_loading
    /\ n_requests = 2
    /\ overwritten = {1}
    /\ pending_analysis_path = None

\* ------------------------------------------------------------------ C28
\* The tags the panel shows.
DisplayedTags == {displayed[k][1] : k \in 1..Len(displayed)}

\* The tags of the vocabulary whose score is at least floor.
TagsFrom(floor) ==
    {Vocabulary[i] : i \in {k \in 1..Len(Vocabulary) : Sigmoid(logits[k]) >= floor}}

\* The list shows exactly the tags of the vocabulary whose score is at
\* least the spinbox's threshold, each once and with its score.
ShowsTagsAboveThreshold ==
    /\ current_threshold \in 50..950
    /\ INTERNAL_THRESHOLD < current_threshold
    /\ DisplayedTags = TagsFrom(current_threshold)
    /\ Len(displayed) = Cardinality(TagsFrom(current_threshold))
    /\ \A k \in 1..Len(displayed) :
          displayed[k][2] = Sigmoid(logits[VocabIndex(displayed[k][1])])

\* C28: for every threshold T of the spinbox (0.05 to 0.95), every step
\* that fills the list (results arrive, or the threshold is changed while
\* results are held) leaves in it exactly the tags of the vocabulary whose
\* score is at least T: the internal floor of the inference task
\* (score > 0.01) removes no tag that passes T, and no tag below T is shown.
C28_ExactlyTheTagsAboveThreshold ==
    [][(/\ ~raw_results'.is_none
        /\ \/ raw_task' # raw_task
           \/ current_threshold' # current_threshold) =>
            ShowsTagsAboveThreshold']_vars

\* At the lowest threshold, 0.05, results are shown for logits of which one
\* scores below the internal floor (0.007): that tag is left out and the
\* two tags above the threshold are shown.
C28_Witness ==
    /\ ~raw_results.is_none
    /\ current_threshold = 50
    /\ \E i \in 1..Len(logits) : Sigmoid(logits[i]) <= INTERNAL_THRESHOLD
    /\ \E i \in 1..Len(logits) : Sigmoid(logits[i]) >= current_threshold
    /\ Len(displayed) = 2

\* ------------------------------------------------------------------ C29
\* Resolution selection succeeds for an image hw high and wide.
SelectionSucceeds(hw) ==
    get_image_size_for_seq(hw, DefaultPatchSize, DefaultMaxSeqlen).raised
        = NoException

\* The number of blocks put_srgb_patch cut the resized image into.
PatchesWritten ==
    (processed_size[2] \div DefaultPatchSize)
        * (processed_size[1] \div DefaultPatchSize)

\* C29: for every readable image on which the resolution selection
\* succeeds, preprocessing returns its buffers without an exception, the
\* sides of the resized image are exact multiples of the patch size, and
\* the number of patches written is at most max_seqlen, the number of slots
\* of the patch, coordinate and validity buffers: every patch written has
\* its slot.
C29_PatchesFitBuffers ==
    \A k \in 1..n_requests :
        (OpenImage(requested[k]) = "ok" /\ SelectionSucceeds(file_hw)) =>
            /\ Preprocessed
            /\ processed_size[1] % DefaultPatchSize = 0
            /\ processed_size[2] % DefaultPatchSize = 0
            /\ PatchesWritten <= DefaultMaxSeqlen
            /\ PatchesWritten <= Cardinality(DOMAIN patches)
            /\ PatchesWritten <= Cardinality(DOMAIN patch_coords)
            /\ PatchesWritten <= Cardinality(DOMAIN patch_valid)
            /\ Cardinality({i \in DOMAIN patch_valid : patch_valid[i]})
                  = PatchesWritten
            /\ \A i \in SignalsOf("error_occurred", k) : emitted[i].task # 0

\* An image above the budget of patches at its own size, whose selected
\* grid fills the buffers to their last slot.
C29_Witness ==
    /\ Preprocessed
    /\ MaxPatches(file_hw[1], DefaultPatchSize)
          * MaxPatches(file_hw[2], DefaultPatchSize) > DefaultMaxSeqlen
    /\ PatchesWritten = DefaultMaxSeqlen
    /\ patch_valid[DefaultMaxSeqlen - 1]

\* ----------------------------------- get_image_size_for_seq step by step
\* A ratio is a Python float: one of finitely many values.  Here a ratio is
\* a whole number of units of 1 / RatioUnits, and a midpoint that is no
\* whole number of units is rounded to the even neighbour, as a float
\* operation rounds to the nearest value, ties to even.  The midpoints of
\* the searches below with eps > 0 are whole numbers of units.
RatioUnits == 128

\* (ratio + max_ratio) / 2.0
Midpoint(a, b) ==
    IF (a + b) % 2 = 0
    THEN (a + b) \div 2
    ELSE IF ((a + b) \div 2) % 2 = 0
    THEN (a + b) \div 2
    ELSE ((a + b) \div 2) + 1

\* int(max((x * max_ratio) // patch_size, 1))
MaxPatchesAt(x, max_ratio, patch_size) ==
    Max((x * max_ratio) \div (patch_size * RatioUnits), 1)

\* The closure patchify(ratio) of the call s, for a ratio that is not
\* negative.
patchify_ratio(s, ratio) ==
    << Min(CeilDiv(s.h * ratio, s.patch_size * RatioUnits), s.max_py),
       Min(CeilDiv(s.w * ratio, s.patch_size * RatioUnits), s.max_px) >>

\* The arguments of the calls followed: images of 1 to 8 pixels a side,
\* patches of 2 pixels, 3 or 4 patches at most, max_ratio 1 or 2, eps 0,
\* 1/8 or 1/4.  All of them pass the two assertions of the function.
SearchArguments ==
    [ h : 1..8, w : 1..8, patch_size : {2}, max_seq_len : {3, 4},
      max_ratio : {RatioUnits, 2 * RatioUnits},
      eps : {0, RatioUnits \div 8, RatioUnits \div 4} ]

\* assert max_ratio >= 1.0; assert eps * 2 < max_ratio
Asserted(args) ==
    /\ args.max_ratio >= RatioUnits
    /\ args.eps * 2 < args.max_ratio

\* get_image_size_for_seq from its first line to the while loop: the early
\* return, the ValueError, or the locals the loop starts with.
EnterSearch(args) ==
    LET max_py == MaxPatchesAt(args.h, args.max_ratio, args.patch_size)
        max_px == MaxPatchesAt(args.w, args.max_ratio, args.patch_size)
        caps == [max_py |-> max_py, max_px |-> max_px]
        at_eps == patchify_ratio(caps @@ args, args.eps)
        locals(py, px) == [max_py |-> max_py, max_px |-> max_px,
                           ratio |-> args.eps, max_ratio |-> args.max_ratio,
                           py |-> py, px |-> px]
    IN  IF max_py * max_px <= args.max_seq_len
        THEN SearchAt("returned", args, locals(max_py, max_px), NoException)
        ELSE IF at_eps[1] * at_eps[2] > args.max_seq_len
        THEN SearchAt("raised", args, locals(at_eps[1], at_eps[2]),
                      Exception("ValueError", TooLargeMessage(args.h, args.w)))
        ELSE SearchAt("while", args, locals(at_eps[1], at_eps[2]), NoException)

\* while (max_ratio - ratio) >= eps
WhileCondition(s) == (s.max_ratio - s.ratio) >= s.eps

\* One pass through the body of the while loop.
WhileBody(s) ==
    LET mid == Midpoint(s.ratio, s.max_ratio)
        grid == patchify_ratio(s, mid)
        seq_len == grid[1] * grid[2]
    IN  IF seq_len > s.max_seq_len
        THEN [s EXCEPT !.max_ratio = mid]
        ELSE [s EXCEPT !.ratio = mid, !.py = grid[1], !.px = grid[2],
                       !.pc = IF seq_len = s.max_seq_len
                              THEN "after_while" ELSE "while"]

\* assert py >= 1 and px >= 1; return py * patch_size, px * patch_size
AssertAndReturn(s) ==
    IF s.py >= 1 /\ s.px >= 1
    THEN [s EXCEPT !.pc = "returned"]
    ELSE [s EXCEPT !.pc = "raised",
                   !.raised = Exception("AssertionError", << >>)]

SearchIs(s) ==
    /\ search' = s
    /\ UNCHANGED app_vars
    /\ UNCHANGED jtp2_vars
    /\ UNCHANGED hydra_vars
    /\ UNCHANGED fit_vars

\* get_image_size_for_seq is called.
CallGetImageSizeForSeq ==
    /\ search.pc = "idle"
    /\ \E args \in SearchArguments :
          /\ Asserted(args)
          /\ SearchIs(EnterSearch(args))

\* The loop condition holds and the body runs once.
Iterate ==
    /\ search.pc = "while"
    /\ WhileCondition(search)
    /\ SearchIs(WhileBody(search))

\* The loop condition fails.
LeaveWhile ==
    /\ search.pc = "while"
    /\ ~WhileCondition(search)
    /\ SearchIs([search EXCEPT !.pc = "after_while"])

\* The two lines after the loop.
ReturnGrid ==
    /\ search.pc = "after_while"
    /\ SearchIs(AssertAndReturn(search))

SearchInit == Jtp2Init

SearchNext ==
    \/ CallGetImageSizeForSeq
    \/ Iterate
    \/ LeaveWhile
    \/ ReturnGrid

SearchSpec == SearchInit /\ [][SearchNext]_vars

\* The thread that called the function keeps running it.
FairSearchSpec == SearchSpec /\ WF_vars(SearchNext)

\* ------------------------------------------------------------------ C30
\* The call is over: it returned a size or raised.
SearchEnded == search.pc \in {"returned", "raised"}

\* A pass through the loop body halves max_ratio - ratio.
HalvesInterval ==
    [][(search.pc = "while" /\ WhileCondition(search)) =>
        2 * (search'.max_ratio - search'.ratio)
            = search.max_ratio - search.ratio]_vars

\* The loop is left only when the interval is narrower than eps or the
\* grid has exactly max_seq_len patches, and it is left then.
LeavesWhenNarrowOrExact ==
    /\ [][(search.pc = "while" /\ search'.pc = "after_while") =>
            \/ (search'.max_ratio - search'.ratio) < search'.eps
            \/ search'.py * search'.px = search'.max_seq_len]_vars
    /\ [][(search.pc = "while" /\ ~WhileCondition(search)) =>
            search'.pc = "after_while"]_vars

\* A size that is returned has at least one patch a side.
ReturnsAtLeastOnePatch ==
    [](search.pc = "returned" => search.py >= 1 /\ search.px >= 1)

\* C30: the search of get_image_size_for_seq terminates for every input
\* with height, width >= 1, max_ratio >= 1 and 2 * eps < max_ratio: every
\* call is over at some time, each pass through the loop halves the
\* interval between ratio and max_ratio, the loop is left once the interval
\* is narrower than eps or the patch count equals max_seq_len, and the grid
\* returned has at least one patch on each axis.
C30_SearchTerminates ==
    /\ [](search.pc # "idle" => <>SearchEnded)
    /\ HalvesInterval
    /\ LeavesWhenNarrowOrExact
    /\ ReturnsAtLeastOnePatch

\* With eps > 0 every call is over at some time.
TerminatesForPositiveEps ==
    [](search.pc # "idle" /\ search.eps > 0 => <>SearchEnded)

\* The loop runs on although the interval can shrink no more: eps is 0.
SearchStalls ==
    /\ search.pc = "while"
    /\ WhileCondition(search)
    /\ WhileBody(search) = search
====
